---- MODULE Spec2Model ----
(***************************************************************************)
(* The scan engine of windows-disk-tool: ScannerEngine                     *)
(* (scanner_engine.py), the native enumeration accelerator                 *)
(* (fast_scanner_win.py), ScanCache (scan_cache.py), DiskDetector          *)
(* (disk_detector.py) and the drive analyses (scanner_engine.py,           *)
(* disk_scanner.py), as a state machine.                                   *)
(*                                                                         *)
(* A directory is an identity in Dirs; directory 1 is the scan root.  A    *)
(* path is the sequence of entry positions that leads from the root to a   *)
(* directory, so two paths can resolve to one identity (a link).  Every    *)
(* invocation of get_folder_size_parallel is a task, named by its path.    *)
(***************************************************************************)
EXTENDS Integers, Sequences, FiniteSets, TLC

\* ---------------------------------------------------------------- bounds
MaxDirs == 3        \* directory identities 1..MaxDirs
MaxSize == 1        \* the unit file size ranges over 0..MaxSize
MaxWorkers == 2     \* max_workers ranges over 1..MaxWorkers
MaxDepth == 2       \* finite max_depth arguments range over -1..MaxDepth
MaxCalls == 2       \* top-level calls made on one engine
MaxTime == 2        \* the clock ranges over 0..MaxTime
MaxMutations == 1   \* directory mutations in one behaviour
MaxCpu == 9         \* cpu_count ranges over 1..MaxCpu
MaxFolders == 14
MaxMiB == 11        \* folder sizes of the lists range over 0..MaxMiB, in MiB
MaxEvents == 2      \* increments of the counters one thread makes    \* folders of a drive root that an analysis scans

\* ------------------------------------------------------ program constants
WinDepthLimit == 5  \* scanner_engine.py:94, max_depth <= 5
QuickDepth == 3     \* scanner_engine.py:233, max_depth=3
expire_seconds == 1 \* scan_cache.py:11, in clock ticks
NoMtime == -1       \* scan_cache.py:124, return 0: below every time a file system reports

VARIABLES
    ents,             \* ents[d]: the entries of directory d, in listing order
    mtime,            \* mtime[d]: modification time of directory d
    bad,              \* what fails: <<d>> the listing of d, <<d, i>> the stat of entry i of d,
                      \* <<d, 0>> the stat of d itself
    now,              \* time.time()
    HAS_WIN_SCANNER,  \* whether fast_scanner_win was imported
    max_workers,      \* ScannerEngine.max_workers
    stop_flag,        \* ScannerEngine.stop_flag
    scanned_inodes,   \* ScannerEngine.scanned_inodes
    cache_hits,       \* ScannerEngine.cache_hits
    cache_misses,     \* ScannerEngine.cache_misses
    scan_stats,       \* ScannerEngine.scan_stats
    folder_cache,     \* table folder_cache of ScanCache: path -> [size, mtime, cache_time]
    call,             \* the top-level call in progress, its arguments, and what it did
    tasks,            \* tasks[p]: the invocation of get_folder_size_parallel on path p
    last,             \* the top-level call that returned before this one
    cache_file,       \* the store file of ScanCache: "ok" or "corrupt"
    conn,             \* ScanCache.conn: "none" before construction, "open", "failed"
    general_cache,    \* table general_cache of ScanCache: key -> [timestamp, data]
    ret,              \* the last call on ScanCache, what it was given and what it returned
    detector,         \* the DiskDetector singleton and the detection in progress
    analysis,         \* the drive analysis in progress and what it returns
    folder,           \* the folder entry last built for the lists of the application
    _lock,            \* ScanCache._lock: <<>> free, <<t>> held by thread t
    thr               \* thr[t]: what thread t of the process is doing

fsvars == <<ents, mtime, bad>>
engvars == <<stop_flag, scanned_inodes, cache_hits, cache_misses, scan_stats>>
\* What no step of a scan changes: the engine's configuration, the store
\* file, the named entries of the cache, the detector and the analyses.
others == <<HAS_WIN_SCANNER, max_workers, cache_file, conn, general_cache, ret,
            detector, analysis, folder, _lock, thr>>
\* The entry built for the lists, and the threads.
more == <<folder, _lock, thr>>
\* What a scan works on.
scanning == <<fsvars, now, engvars, folder_cache, call, tasks, last>>
vars == <<ents, mtime, bad, now, HAS_WIN_SCANNER, max_workers, stop_flag,
          scanned_inodes, cache_hits, cache_misses, scan_stats, folder_cache,
          call, tasks, last, cache_file, conn, general_cache, ret, detector,
          analysis, folder, _lock, thr>>

\* ------------------------------------------------------------ file system
Dirs == 1..MaxDirs
Root == 1

FileEntry(sz) == [k |-> "file", sz |-> sz, to |-> 0]
DirEntry(d) == [k |-> "dir", sz |-> 0, to |-> d]
LinkEntry(d) == [k |-> "link", sz |-> 0, to |-> d]

\* The size of the one regular file of directory d: the unit times 2^(d-1),
\* so that a total tells which directories were counted.
RECURSIVE Pow2(_)
Pow2(n) == IF n = 0 THEN 1 ELSE 2 * Pow2(n - 1)

FileSizeOf(unit, d) == unit * Pow2(d - 1)

\* The real subdirectories of d, in increasing order.
Kids(par, d) ==
    LET IsKid(c) == c > 1 /\ par[c] = d
    IN  SelectSeq([i \in 1..MaxDirs |-> i], IsKid)

\* Directory d holds one regular file, its real subdirectories, and the link
\* (a pair <<from, to>>, or <<>> for none) when it starts at d.
MkEnts(par, unit, lnk) ==
    [d \in Dirs |->
        LET kids == Kids(par, d)
        IN  <<FileEntry(FileSizeOf(unit, d))>>
            \o [i \in 1..Len(kids) |-> DirEntry(kids[i])]
            \o (IF lnk # <<>> /\ lnk[1] = d THEN <<LinkEntry(lnk[2])>> ELSE <<>>)]

Shapes == {par \in [2..MaxDirs -> Dirs] : \A d \in 2..MaxDirs : par[d] < d}
Links == {<<>>} \cup (Dirs \X Dirs)
Failures(e) ==
    {{}} \cup {{<<d>>} : d \in Dirs}
         \cup {{x} : x \in {y \in Dirs \X (1..(MaxDirs + 1)) : y[2] <= Len(e[y[1]])}}

\* The directory a path resolves to (links are followed as the OS does).
RECURSIVE Resolve(_, _)
Resolve(e, p) ==
    IF p = <<>> THEN Root
    ELSE e[Resolve(e, SubSeq(p, 1, Len(p) - 1))][p[Len(p)]].to

Parent(p) == SubSeq(p, 1, Len(p) - 1)
LastOf(p) == p[Len(p)]

\* max_depth: <<>> is None, <<d>> is the integer d.
NoDepth == <<>>
IsFinite(md) == md # <<>>
DepthArgs == {NoDepth} \cup {<<d>> : d \in -1..MaxDepth}
NextDepth(md) == IF IsFinite(md) THEN <<md[1] - 1>> ELSE NoDepth

\* ------------------------------------------------------------ ScanCache
\* ScanCache._get_folder_mtime: the live modification time of the directory
\* the path resolves to.
GetFolderMtime(p) ==
    LET d == Resolve(ents, p)
    IN  IF <<d, 0>> \in bad THEN NoMtime ELSE mtime[d]

\* ScanCache.get_folder_cache: <<>> is None, <<size, mtime>> is the record.
\* line 143: if time.time() - cached_time > self.expire_seconds
ExpiredAtLimit(rec) == now - rec.cache_time >= expire_seconds
Expired(rec) == now - rec.cache_time > expire_seconds

\* line 147: if current_mtime > cached_mtime
StaleOrSame(p, rec) == GetFolderMtime(p) >= rec.mtime
StaleLate(p, rec) == GetFolderMtime(p) > rec.mtime + 1
Stale(p, rec) == GetFolderMtime(p) > rec.mtime

get_folder_cache(p) ==
    IF p \notin DOMAIN folder_cache THEN <<>>
    ELSE LET rec == folder_cache[p]
         IN  IF Expired(rec) THEN <<>>
             ELSE IF Stale(p, rec) THEN <<>>
             ELSE <<rec.size, rec.mtime>>

\* ScanCache.set_folder_cache: INSERT OR REPLACE with the live mtime.
set_folder_cache(p, size) ==
    [q \in DOMAIN folder_cache \cup {p} |->
        IF q = p THEN [size |-> size, mtime |-> GetFolderMtime(p), cache_time |-> now]
        ELSE folder_cache[q]]

\* ------------------------------------------------- fast_scanner_win.py
\* _scan_recursive: the size under directory d.  FindFirstFileExW lists a
\* directory with the sizes of its files, so no entry is stat'ed; a link to a
\* directory carries FILE_ATTRIBUTE_DIRECTORY and is entered like a directory;
\* scanned_inodes is passed along and never read.
RECURSIVE SumWin(_, _, _, _)
RECURSIVE ScanRecursive(_, _, _)
ScanRecursive(d, md, cur) ==
    IF md >= 0 /\ cur >= md THEN 0
    ELSE IF <<d>> \in bad THEN 0
    ELSE SumWin(d, md, cur, 1)

SumWin(d, md, cur, i) ==
    IF i > Len(ents[d]) THEN 0
    ELSE LET e == ents[d][i]
         IN  (IF e.k = "file" THEN e.sz ELSE ScanRecursive(e.to, md, cur + 1))
             + SumWin(d, md, cur, i + 1)

scan_folder_win(p, md) == ScanRecursive(Resolve(ents, p), md, 0)

\* ------------------------------------------------------------ the tasks
\* One invocation of get_folder_size_parallel.  pc is its position:
\*   queued  submitted to its parent's executor (or called), not yet started
\*   win     about to call scan_folder_win            (lines 94-102)
\*   inode   about to look its identity up            (lines 105-109)
\*   add     about to record its identity             (lines 110-111)
\*   list    about to list the directory              (line 118)
\*   ents    in the loop over the entries, at entry i (lines 120-133)
\*   fanout  after the loop                           (lines 136-145)
\*   await   in the loop over as_completed            (lines 147-154)
\*   join    leaving the with block: executor.shutdown(wait=True)
\*   commit  about to update the statistics and the cache (lines 157-161)
\*   done    returned res
\* The root task of scan_drive_folders_parallel goes through
\*   dstart  about to clear the stop flag and the statistics (lines 214-215)
\*   dlist   about to list the drive and submit its folders  (lines 221-235)
\*   dawait  in the loop over as_completed                   (lines 241-270)
\*   djoin   leaving the with block
\*   dsort   about to sort and return                        (lines 284-285)
NewTask(md) ==
    [pc |-> "queued", md |-> md, total |-> 0, i |-> 0, subdirs |-> <<>>,
     fin |-> <<>>, taken |-> 0, res |-> 0]

NoTasks == <<>>
Started == DOMAIN tasks
ChildrenOf(p) == {q \in Started : Len(q) = Len(p) + 1 /\ Parent(q) = p}
Running(p) == {q \in ChildrenOf(p) : tasks[q].pc \notin {"queued", "done"}}

Min(a, b) == IF a < b THEN a ELSE b

\* ThreadPoolExecutor(max_workers=min(len(subdirs), self.max_workers)): the
\* workers take the submitted calls in submission order, one each.
\* scan_drive_folders_parallel gives its executor max_workers workers.
\* (A pool with a worker for every submitted call.)
PoolSizeOfChildren(p) == Len(tasks[p].subdirs)
PoolSize(p) ==
    IF tasks[p].pc \in {"dawait", "djoin"} THEN max_workers
    ELSE Min(Len(tasks[p].subdirs), max_workers)

\* (One pool of max_workers threads for all the levels: an invocation that
\* waits for its children keeps its thread.)
MayStartShared(p) ==
    \/ p = call.at
    \/ /\ p # call.at
       /\ Cardinality({q \in Started \ {call.at} : tasks[q].pc \notin {"queued", "done"}})
              < max_workers
       /\ \A q \in ChildrenOf(Parent(p)) :
              LastOf(q) < LastOf(p) => tasks[q].pc # "queued"

MayStart(p) ==
    \/ p = call.at
    \/ /\ p # call.at
       /\ Cardinality(Running(Parent(p))) < PoolSize(Parent(p))
       /\ \A q \in ChildrenOf(Parent(p)) :
              LastOf(q) < LastOf(p) => tasks[q].pc # "queued"

\* The tasks once invocation p has returned r: its future completes, which
\* as_completed of its parent sees in completion order.
ReturnedUnseen(p, r) == [tasks EXCEPT ![p].pc = "done", ![p].res = r]
Returned(p, r) ==
    LET t == [tasks EXCEPT ![p].pc = "done", ![p].res = r]
    IN  IF p = call.at THEN t
        ELSE [t EXCEPT ![Parent(p)].fin = Append(@, LastOf(p))]

At(p, pc) == p \in Started /\ tasks[p].pc = pc

\* --------------------------------------------- get_folder_size_parallel
\* line 81: if max_depth is not None and max_depth < 0
DepthExhausted(md) == IsFinite(md) /\ md[1] < 0

\* line 94: if HAS_WIN_SCANNER and max_depth is not None and max_depth <= 5
UseWin(md) == HAS_WIN_SCANNER /\ IsFinite(md) /\ md[1] <= WinDepthLimit

\* line 107: if inode and inode in self.scanned_inodes
CycleSeen(d) == d \in scanned_inodes

\* line 160: if use_cache and self.cache and total_size > 0
CommitsRecord(total) == call.use_cache /\ total > 0

\* lines 77-91: the stop flag, the depth limit and the cache, in this order:
\* whether the invocation returns at once, with what, and what is counted.
EntryChecksCacheFirst(p, md) ==
    LET cached == get_folder_cache(p)
    IN  IF stop_flag
        THEN [ret |-> TRUE, res |-> 0, hits |-> 0, misses |-> 0]
        ELSE IF call.use_cache /\ cached # <<>>
        THEN [ret |-> TRUE, res |-> cached[1], hits |-> 1, misses |-> 0]
        ELSE [ret |-> DepthExhausted(md), res |-> 0, hits |-> 0,
              misses |-> IF call.use_cache THEN 1 ELSE 0]

\* (The miss counted before the record is looked at, on a hit too.)
EntryChecksCountsLookup(p, md) ==
    LET cached == get_folder_cache(p)
    IN  IF stop_flag \/ DepthExhausted(md)
        THEN [ret |-> TRUE, res |-> 0, hits |-> 0, misses |-> 0]
        ELSE IF call.use_cache /\ cached # <<>>
        THEN [ret |-> TRUE, res |-> cached[1], hits |-> 1, misses |-> 1]
        ELSE [ret |-> FALSE, res |-> 0, hits |-> 0,
              misses |-> IF call.use_cache THEN 1 ELSE 0]

EntryChecks(p, md) ==
    LET cached == get_folder_cache(p)
    IN  IF stop_flag \/ DepthExhausted(md)
        THEN [ret |-> TRUE, res |-> 0, hits |-> 0, misses |-> 0]
        ELSE IF call.use_cache /\ cached # <<>>
        THEN [ret |-> TRUE, res |-> cached[1], hits |-> 1, misses |-> 0]
        ELSE [ret |-> FALSE, res |-> 0, hits |-> 0,
              misses |-> IF call.use_cache THEN 1 ELSE 0]

Enter(p) ==
    /\ At(p, "queued")
    /\ MayStart(p)
    /\ LET md == tasks[p].md
           c == EntryChecks(p, md)
       IN  /\ cache_hits' = cache_hits + c.hits
           /\ cache_misses' = cache_misses + c.misses
           /\ tasks' = IF c.ret THEN Returned(p, c.res)
                       ELSE [tasks EXCEPT ![p].pc = IF UseWin(md) THEN "win" ELSE "inode"]
    /\ UNCHANGED <<fsvars, now, others, stop_flag,
                   scanned_inodes, scan_stats, folder_cache, call, last>>

\* lines 94-100: the whole subtree in one call of the accelerator, which
\* catches its own exceptions (fast_scanner_win.py:115), so line 101 never runs.
Win(p) ==
    /\ At(p, "win")
    /\ LET size == scan_folder_win(p, tasks[p].md[1])
       IN  /\ folder_cache' = IF CommitsRecord(size) THEN set_folder_cache(p, size)
                                ELSE folder_cache
           /\ call' = [call EXCEPT !.listed = IF tasks[p].md[1] > 0 THEN @ + 1 ELSE @,
                                   !.commits = IF CommitsRecord(size) THEN @ \cup {p} ELSE @]
           /\ tasks' = Returned(p, size)
    /\ UNCHANGED <<fsvars, now, others, engvars, last>>

\* lines 33-40: _get_inode, None when os.stat fails.
NoInode(d) == <<d, 0>> \in bad

\* lines 105-109: _get_inode and the membership test.
Inode(p) ==
    /\ At(p, "inode")
    /\ IF ~call.follow \/ NoInode(Resolve(ents, p))
       THEN /\ tasks' = [tasks EXCEPT ![p].pc = "list"]
            /\ UNCHANGED scan_stats
       ELSE IF CycleSeen(Resolve(ents, p))
       THEN /\ scan_stats' = [scan_stats EXCEPT !.skipped_loops = @ + 1]
            /\ tasks' = Returned(p, 0)
       ELSE /\ tasks' = [tasks EXCEPT ![p].pc = "add"]
            /\ UNCHANGED scan_stats
    /\ UNCHANGED <<fsvars, now, others, stop_flag,
                   scanned_inodes, cache_hits, cache_misses, folder_cache, call, last>>

\* lines 110-111: a statement of its own, after the test: another thread may
\* run between the two.
AddInode(p) ==
    /\ At(p, "add")
    /\ scanned_inodes' = scanned_inodes \cup {Resolve(ents, p)}
    /\ tasks' = [tasks EXCEPT ![p].pc = "list"]
    /\ UNCHANGED <<fsvars, now, others, stop_flag,
                   cache_hits, cache_misses, scan_stats, folder_cache, call, last>>

\* line 118: list(os.scandir(path)); an OSError leaves through line 163 with
\* total_size still 0.
List(p) ==
    /\ At(p, "list")
    /\ LET d == Resolve(ents, p)
       IN  IF <<d>> \in bad
           THEN tasks' = Returned(p, 0)
           ELSE tasks' = [tasks EXCEPT ![p].pc = IF Len(ents[d]) = 0 THEN "fanout" ELSE "ents",
                                       ![p].i = 1]
    /\ call' = [call EXCEPT !.listed = @ + 1]
    /\ UNCHANGED <<fsvars, now, others, engvars, folder_cache, last>>

\* lines 132-133: except (PermissionError, OSError): continue
LeaveLoop(t, nxt) == [t EXCEPT !.pc = "fanout"]
SkipEntry(t, nxt) == [t EXCEPT !.pc = nxt, !.i = @ + 1]

\* lines 120-133: one turn of the loop over the entries.
Entry(p) ==
    /\ At(p, "ents")
    /\ LET d == Resolve(ents, p)
           i == tasks[p].i
           e == ents[d][i]
           nxt == IF i = Len(ents[d]) THEN "fanout" ELSE "ents"
       IN  IF stop_flag
           THEN /\ tasks' = [tasks EXCEPT ![p].pc = "fanout"]
                /\ UNCHANGED scan_stats
           ELSE IF <<d, i>> \in bad
           THEN /\ tasks' = [tasks EXCEPT ![p] = SkipEntry(@, nxt)]
                /\ UNCHANGED scan_stats
           ELSE IF e.k = "file"
           THEN /\ tasks' = [tasks EXCEPT ![p].pc = nxt, ![p].i = i + 1,
                                          ![p].total = @ + e.sz]
                /\ scan_stats' = [scan_stats EXCEPT !.total_files = @ + 1]
           ELSE IF e.k = "dir" \/ call.follow
           THEN /\ tasks' = [tasks EXCEPT ![p].pc = nxt, ![p].i = i + 1,
                                          ![p].subdirs = Append(@, i)]
                /\ scan_stats' = [scan_stats EXCEPT !.total_folders = @ + 1]
           ELSE /\ tasks' = [tasks EXCEPT ![p].pc = nxt, ![p].i = i + 1]
                /\ UNCHANGED scan_stats
    /\ UNCHANGED <<fsvars, now, others, stop_flag, scanned_inodes,
                   cache_hits, cache_misses, folder_cache, call, last>>

\* lines 136-145: one submitted call per subdirectory, with max_depth - 1.
Fanout(p) ==
    /\ At(p, "fanout")
    /\ IF tasks[p].subdirs # <<>> /\ ~stop_flag
       THEN LET kids == {Append(p, tasks[p].subdirs[k]) : k \in 1..Len(tasks[p].subdirs)}
            IN  tasks' = [q \in Started \cup kids |->
                            IF q \in kids THEN NewTask(NextDepth(tasks[p].md))
                            ELSE IF q = p THEN [tasks[p] EXCEPT !.pc = "await"]
                            ELSE tasks[q]]
       ELSE tasks' = [tasks EXCEPT ![p].pc = "commit"]
    /\ UNCHANGED <<fsvars, now, others, engvars, folder_cache,
                   call, last>>

\* lines 147-154: as_completed hands over the next completed future; after
\* the last one the with block is left at once, every call having run.
Await(p) ==
    /\ At(p, "await")
    /\ LET t == tasks[p]
       IN  /\ t.taken < Len(t.fin)
           /\ IF stop_flag
              THEN /\ tasks' = [tasks EXCEPT ![p].pc = "join"]
                   /\ call' = [call EXCEPT !.cut = TRUE]
              ELSE /\ tasks' = [tasks EXCEPT
                          ![p].pc = IF t.taken + 1 = Len(t.subdirs) THEN "commit" ELSE "await",
                          ![p].taken = @ + 1,
                          ![p].total = @ + tasks[Append(p, t.fin[t.taken + 1])].res]
                   /\ UNCHANGED call
    /\ UNCHANGED <<fsvars, now, others, engvars, folder_cache, last>>

\* line 141, leaving the with block: shutdown(wait=True) returns when every
\* submitted call has run.
Join(p) ==
    /\ At(p, "join")
    /\ \A q \in ChildrenOf(p) : tasks[q].pc = "done"
    /\ tasks' = [tasks EXCEPT ![p].pc = "commit"]
    /\ UNCHANGED <<fsvars, now, others, engvars, folder_cache,
                   call, last>>

\* lines 157-166.
Commit(p) ==
    /\ At(p, "commit")
    /\ LET total == tasks[p].total
       IN  /\ scan_stats' = [scan_stats EXCEPT !.total_bytes = @ + total]
           /\ folder_cache' = IF CommitsRecord(total) THEN set_folder_cache(p, total)
                                ELSE folder_cache
           /\ call' = [call EXCEPT
                    !.commits = IF CommitsRecord(total) THEN @ \cup {p} ELSE @]
           /\ tasks' = Returned(p, total)
    /\ UNCHANGED <<fsvars, now, others, stop_flag, scanned_inodes,
                   cache_hits, cache_misses, last>>

\* ------------------------------------------------------- the callers
\* A caller invokes get_folder_size_parallel on the root, one call at a time.
\* call keeps the path (at) and the arguments and, for the properties, what the call did:
\* the counters when it started, the directories it listed, the records it
\* committed, whether a parent left its as_completed loop on the stop flag.
NoCall ==
    [n |-> 0, active |-> FALSE, kind |-> "size", at |-> <<>>, md |-> NoDepth,
     use_cache |-> FALSE,
     follow |-> FALSE, cut |-> FALSE, folders |-> <<>>,
     hits0 |-> 0, misses0 |-> 0, loops0 |-> 0, seen0 |-> {}, stop0 |-> FALSE,
     mtime0 |-> [d \in Dirs |-> 0], now0 |-> 0,
     listed |-> 0, commits |-> {}, res |-> 0]

Call(md, use_cache, follow) ==
    /\ ~call.active
    /\ call' = [n |-> call.n + 1, active |-> TRUE, kind |-> "size", at |-> <<>>,
                md |-> md,
                use_cache |-> use_cache, follow |-> follow, cut |-> FALSE,
                folders |-> <<>>, hits0 |-> cache_hits, misses0 |-> cache_misses,
                loops0 |-> scan_stats.skipped_loops, seen0 |-> scanned_inodes,
                stop0 |-> stop_flag, mtime0 |-> mtime, now0 |-> now,
                listed |-> 0, commits |-> {}, res |-> 0]
    /\ last' = call
    /\ tasks' = (<<>> :> NewTask(md))
    /\ UNCHANGED <<fsvars, now, others, engvars, folder_cache>>

\* scan_drive_folders_parallel on the root: scan_folder calls
\* get_folder_size_parallel(path, max_depth=3) with the defaults
\* use_cache=True, follow_symlinks=True (lines 195, 233).
CallDrive ==
    /\ ~call.active
    /\ call' = [n |-> call.n + 1, active |-> TRUE, kind |-> "drive", at |-> <<>>,
                md |-> <<QuickDepth>>,
                use_cache |-> TRUE, follow |-> TRUE, cut |-> FALSE,
                folders |-> <<>>, hits0 |-> cache_hits, misses0 |-> cache_misses,
                loops0 |-> scan_stats.skipped_loops, seen0 |-> scanned_inodes,
                stop0 |-> stop_flag, mtime0 |-> mtime, now0 |-> now,
                listed |-> 0, commits |-> {}, res |-> 0]
    /\ last' = call
    /\ tasks' = (<<>> :> [NewTask(<<QuickDepth>>) EXCEPT !.pc = "dstart"])
    /\ UNCHANGED <<fsvars, now, others, engvars, folder_cache>>

\* lines 214-215: self.stop_flag.clear(); self.reset_scan_stats()
DriveStart ==
    /\ At(<<>>, "dstart")
    /\ stop_flag' = FALSE
    /\ scanned_inodes' = {}
    /\ scan_stats' = [total_folders |-> 0, total_files |-> 0, total_bytes |-> 0,
                      skipped_loops |-> 0]
    /\ tasks' = [tasks EXCEPT ![<<>>].pc = "dlist"]
    /\ UNCHANGED <<fsvars, now, others, cache_hits, cache_misses,
                   folder_cache, call, last>>

\* lines 221-235: the entries with is_dir(follow_symlinks=False), one
\* submitted scan_folder each; an exception of os.scandir leaves through
\* line 280 with no folder.
DriveList ==
    /\ At(<<>>, "dlist")
    /\ LET IsFolder(i) == ents[Root][i].k = "dir"
           folders == SelectSeq([i \in 1..Len(ents[Root]) |-> i], IsFolder)
           kids == {<<folders[k]>> : k \in 1..Len(folders)}
       IN  IF <<Root>> \in bad \/ folders = <<>>
           THEN tasks' = [tasks EXCEPT ![<<>>].pc = "dsort"]
           ELSE tasks' = [q \in Started \cup kids |->
                            IF q \in kids THEN NewTask(<<QuickDepth>>)
                            ELSE [tasks[q] EXCEPT !.pc = "dawait", !.subdirs = folders]]
    /\ call' = [call EXCEPT !.listed = @ + 1]
    /\ UNCHANGED <<fsvars, now, others, engvars, folder_cache, last>>

\* lines 241-251: the next completed scan_folder; its result joins folders
\* unless the stop flag ends the loop.
DriveAwait ==
    /\ At(<<>>, "dawait")
    /\ LET t == tasks[<<>>]
       IN  /\ t.taken < Len(t.fin)
           /\ IF stop_flag
              THEN /\ tasks' = [tasks EXCEPT ![<<>>].pc = "djoin"]
                   /\ call' = [call EXCEPT !.cut = TRUE]
              ELSE /\ tasks' = [tasks EXCEPT
                          ![<<>>].pc = IF t.taken + 1 = Len(t.subdirs) THEN "dsort" ELSE "dawait",
                          ![<<>>].taken = @ + 1]
                   /\ call' = [call EXCEPT !.folders =
                          Append(@, [name |-> t.fin[t.taken + 1],
                                     size |-> tasks[<<t.fin[t.taken + 1]>>].res])]
    /\ UNCHANGED <<fsvars, now, others, engvars, folder_cache, last>>

DriveJoin ==
    /\ At(<<>>, "djoin")
    /\ \A q \in ChildrenOf(<<>>) : tasks[q].pc = "done"
    /\ tasks' = [tasks EXCEPT ![<<>>].pc = "dsort"]
    /\ UNCHANGED <<fsvars, now, others, engvars, folder_cache,
                   call, last>>

\* line 284: folders.sort(key=lambda x: x['size'], reverse=True), a stable
\* sort: the folder goes before the first one that is smaller.
RECURSIVE InsertBySize(_, _)
InsertBySize(f, sorted) ==
    IF sorted = <<>> THEN <<f>>
    ELSE IF Head(sorted).size < f.size THEN <<f>> \o sorted
    ELSE <<Head(sorted)>> \o InsertBySize(f, Tail(sorted))

Unsorted(fs) == fs
RECURSIVE SortBySize(_)
SortBySize(fs) ==
    IF fs = <<>> THEN <<>>
    ELSE InsertBySize(fs[Len(fs)], SortBySize(SubSeq(fs, 1, Len(fs) - 1)))

RECURSIVE SumSizes(_)
SumSizes(fs) == IF fs = <<>> THEN 0 ELSE Head(fs).size + SumSizes(Tail(fs))

\* lines 284-285; res is the sum of the folders' sizes (line 314).
DriveSort ==
    /\ At(<<>>, "dsort")
    /\ call' = [call EXCEPT !.folders = SortBySize(@)]
    /\ tasks' = Returned(<<>>, SumSizes(call.folders))
    /\ UNCHANGED <<fsvars, now, others, engvars, folder_cache, last>>

Return ==
    /\ call.active
    /\ At(call.at, "done")
    /\ call' = [call EXCEPT !.active = FALSE, !.res = tasks[call.at].res]
    /\ tasks' = NoTasks
    /\ UNCHANGED <<fsvars, now, others, engvars, folder_cache, last>>

\* ScannerEngine.stop_scan, from any thread at any time.
stop_scan ==
    /\ stop_flag' = TRUE
    /\ UNCHANGED <<fsvars, now, others, scanned_inodes, cache_hits,
                   cache_misses, scan_stats, folder_cache, call, tasks, last>>

\* ------------------------------------------------------ the environment
\* Another process adds a file to directory d, or removes the file it added:
\* either raises the directory's own modification time.
RECURSIVE SumTo(_, _)
SumTo(f, n) == IF n = 0 THEN 0 ELSE f[n] + SumTo(f, n - 1)

Mutations == SumTo(mtime, MaxDirs)

Mutate(d) ==
    /\ ~call.active
    /\ folder_cache # <<>>
    /\ Mutations < MaxMutations
    /\ LET n == Len(ents[d])
       IN  ents' = [ents EXCEPT ![d] =
                       IF n > 1 /\ @[n].k = "file" THEN SubSeq(@, 1, n - 1)
                       ELSE Append(@, FileEntry(1))]
    /\ mtime' = [mtime EXCEPT ![d] = @ + 1]
    /\ UNCHANGED <<bad, now, others, engvars, folder_cache, call,
                   tasks, last>>

\* Another process adds a file to directory d while a scan runs, after an
\* invocation listed d and ran through its entries (line 118-133) and before
\* it returns.
Touch(d) ==
    /\ call.active
    /\ Mutations < MaxMutations
    /\ \E p \in Started :
           /\ Resolve(ents, p) = d
           /\ tasks[p].pc \in {"fanout", "await", "join", "commit"}
    /\ ents' = [ents EXCEPT ![d] = Append(@, FileEntry(1))]
    /\ mtime' = [mtime EXCEPT ![d] = @ + 1]
    /\ UNCHANGED <<bad, now, others, engvars, folder_cache, call,
                   tasks, last>>

\* Directory d is deleted, or made inaccessible, by another process: its
\* listing, its own stat and the stat of every entry that leads to it fail
\* from now on.
Vanish(d) ==
    /\ ~call.active
    /\ folder_cache # <<>>
    /\ <<d, 0>> \notin bad
    /\ bad' = bad \cup {<<d>>, <<d, 0>>}
                  \cup {y \in Dirs \X (1..(MaxDirs + 2)) :
                           /\ y[2] <= Len(ents[y[1]])
                           /\ ents[y[1]][y[2]].k # "file"
                           /\ ents[y[1]][y[2]].to = d}
    /\ UNCHANGED <<ents, mtime, now, others, engvars, folder_cache, call,
                   tasks, last>>

Tick ==
    /\ ~call.active
    /\ folder_cache # <<>> \/ general_cache # <<>>
    /\ now < MaxTime
    /\ now' = now + 1
    /\ UNCHANGED <<fsvars, others, engvars, folder_cache, call,
                   tasks, last>>

\* ------------------------------------------ ScanCache, the named entries
\* The keys main.py uses: "deep_scan_C:\" and "subfolder_list_<path>".
Keys == {"deep_scan", "subfolder_list"}

\* What a caller hands to set(key, data): a dict whose keys are strings, a
\* dict whose keys are integers, and a value json.dumps rejects (a set);
\* v tells two dicts apart.
Blobs ==
    [keys : {"str"}, v : 0..MaxSize]
        \cup {[keys |-> "int", v |-> 0], [keys |-> "none", v |-> 0]}

\* line 92, json.dumps(data, ensure_ascii=False): a JSON object has string
\* keys only, so integer keys are written as strings; a set raises TypeError.
Serialisable(b) == b.keys # "none"
Dumps(b) == [v |-> b.v]

\* line 83, json.loads(row['data'])
Loads(text) == [keys |-> "str", v |-> text.v]

\* The rows of a table that _cleanup_expired keeps (lines 59-62).
Kept(table, field) ==
    LET S == {k \in DOMAIN table : ~(table[k][field] < now - expire_seconds)}
    IN  IF S = {} THEN <<>> ELSE [k \in S |-> table[k]]

\* A table without the row of key k.
Without(table, k) ==
    LET S == DOMAIN table \ {k}
    IN  IF S = {} THEN <<>> ELSE [q \in S |-> table[q]]

\* ret: the call made on the cache, its argument, what it returned (<<>> is
\* None), whether it raised, the state of the store file when it was made,
\* and the data last handed to set for every key.
NoRet ==
    [op |-> "none", arg |-> <<>>, val |-> <<>>, raised |-> FALSE, file |-> "ok",
     given |-> [k \in Keys |-> <<>>]]

Called(op, arg, val, raised) ==
    [ret EXCEPT !.op = op, !.arg = arg, !.val = val, !.raised = raised,
                !.file = cache_file]

\* ScanCache.__init__ -> _init_database -> _cleanup_expired (lines 9-63).
\* No statement of the three is inside a try: on a file that is not a
\* database the first cursor.execute raises sqlite3.DatabaseError.
ScanCacheInit ==
    /\ conn = "none"
    /\ IF cache_file = "ok"
       THEN /\ conn' = "open"
            /\ folder_cache' = Kept(folder_cache, "cache_time")
            /\ general_cache' = Kept(general_cache, "timestamp")
            /\ ret' = Called("init", <<>>, <<>>, FALSE)
       ELSE /\ conn' = "failed"
            /\ ret' = Called("init", <<>>, <<>>, TRUE)
            /\ UNCHANGED <<folder_cache, general_cache>>
    /\ UNCHANGED <<fsvars, now, HAS_WIN_SCANNER, max_workers, engvars, call, tasks, last,
                   cache_file, detector, analysis, more>>

\* ScanCache.get (lines 65-83), not inside a try.
get(key) ==
    /\ conn = "open"
    /\ IF cache_file # "ok"
       THEN ret' = Called("get", key, <<>>, TRUE) /\ UNCHANGED general_cache
       ELSE IF key \notin DOMAIN general_cache
       THEN ret' = Called("get", key, <<>>, FALSE) /\ UNCHANGED general_cache
       ELSE IF now - general_cache[key].timestamp > expire_seconds
       THEN /\ general_cache' = Without(general_cache, key)
            /\ ret' = Called("get", key, <<>>, FALSE)
       ELSE /\ ret' = Called("get", key, <<Loads(general_cache[key].data)>>, FALSE)
            /\ UNCHANGED general_cache
    /\ UNCHANGED <<fsvars, now, HAS_WIN_SCANNER, max_workers, engvars, folder_cache, call,
                   tasks, last, cache_file, conn, detector, analysis, more>>

\* ScanCache.set (lines 85-96): json.dumps and the INSERT OR REPLACE are
\* inside the try, whose except passes.
set(key, data) ==
    /\ conn = "open"
    /\ IF cache_file = "ok" /\ Serialisable(data)
       THEN general_cache' =
               [k \in DOMAIN general_cache \cup {key} |->
                   IF k = key THEN [timestamp |-> now, data |-> Dumps(data)]
                   ELSE general_cache[k]]
       ELSE UNCHANGED general_cache
    /\ ret' = [Called("set", key, <<>>, FALSE) EXCEPT !.given[key] = <<data>>]
    /\ UNCHANGED <<fsvars, now, HAS_WIN_SCANNER, max_workers, engvars, folder_cache, call,
                   tasks, last, cache_file, conn, detector, analysis, more>>

\* ScanCache.clear (lines 98-105): one key, or both tables when key is None.
clear(key) ==
    /\ conn = "open"
    /\ IF cache_file # "ok"
       THEN ret' = Called("clear", key, <<>>, TRUE)
            /\ UNCHANGED <<general_cache, folder_cache>>
       ELSE /\ ret' = Called("clear", key, <<>>, FALSE)
            /\ IF key = <<>>
               THEN general_cache' = <<>> /\ folder_cache' = <<>>
               ELSE /\ general_cache' = Without(general_cache, key[1])
                    /\ UNCHANGED folder_cache
    /\ UNCHANGED <<fsvars, now, HAS_WIN_SCANNER, max_workers, engvars, call,
                   tasks, last, cache_file, conn, detector, analysis, more>>

\* ScanCache.get_cache_age (lines 107-115): the age of the row, whatever it is.
get_cache_age(key) ==
    /\ conn = "open"
    /\ IF cache_file # "ok"
       THEN ret' = Called("age", key, <<>>, TRUE)
       ELSE IF key \notin DOMAIN general_cache
       THEN ret' = Called("age", key, <<>>, FALSE)
       ELSE ret' = Called("age", key, <<now - general_cache[key].timestamp>>, FALSE)
    /\ UNCHANGED <<fsvars, now, HAS_WIN_SCANNER, max_workers, engvars, folder_cache,
                   general_cache, call, tasks, last, cache_file, conn, detector, analysis, more>>

\* A direct get_folder_cache(path) (lines 126-152): any exception of the
\* store is caught at line 151 and None is returned.
FolderLookup(p) ==
    /\ conn = "open"
    /\ ret' = Called("get_folder_cache", p,
                     IF cache_file = "ok" THEN get_folder_cache(p) ELSE <<>>, FALSE)
    /\ UNCHANGED <<fsvars, now, HAS_WIN_SCANNER, max_workers, engvars, folder_cache,
                   general_cache, call, tasks, last, cache_file, conn, detector, analysis, more>>

\* A direct set_folder_cache(path, size) (lines 154-165): any exception of
\* the store is caught at line 164.
FolderStore(p, size) ==
    /\ conn = "open"
    /\ IF cache_file = "ok"
       THEN folder_cache' = set_folder_cache(p, size)
       ELSE UNCHANGED folder_cache
    /\ ret' = Called("set_folder_cache", p, <<>>, FALSE)
    /\ UNCHANGED <<fsvars, now, HAS_WIN_SCANNER, max_workers, engvars,
                   general_cache, call, tasks, last, cache_file, conn, detector, analysis, more>>

\* The process ends (ScanCache.__del__, lines 198-200); the store file stays.
Exit ==
    /\ conn # "none"
    /\ conn' = "none"
    /\ UNCHANGED <<fsvars, now, HAS_WIN_SCANNER, max_workers, engvars, folder_cache,
                   general_cache, call, tasks, last, cache_file, ret, detector, analysis, more>>

\* The store file is damaged: it is no longer a database.
Corrupt ==
    /\ cache_file = "ok"
    /\ cache_file' = "corrupt"
    /\ UNCHANGED <<fsvars, now, HAS_WIN_SCANNER, max_workers, engvars, folder_cache,
                   general_cache, call, tasks, last, conn, ret, detector, analysis, more>>

\* ----------------------------------------------------------- DiskDetector
\* The drive designators callers pass, and line 30:
\* drive_letter.replace('\\', '').replace(':', '')
DriveArgs == {"C:\\", "C:", "D:\\"}
Normalise(arg) == IF arg \in {"C:\\", "C:"} THEN "C" ELSE "D"

\* What the probes can observe.  "fail", or <<>>, is an exception, a
\* timeout, a non-zero return code or an empty output.
NetOutcomes == {"fail", "yes", "no"}
MediaTypes == {"SSD", "4", "HDD", "3", "Unspecified"}
BusTypes == {"NVMe", "17", "SATA", ""}
PsOutcomes == {<<>>} \cup (MediaTypes \X BusTypes)
WmicOutcomes == {<<>>} \cup (BOOLEAN \X BOOLEAN \X BOOLEAN)
Iops == {50, 100, 1000, 5000}
PerfOutcomes == {<<>>} \cup {<<i>> : i \in Iops}

\* _is_network_drive (lines 69-76)
IsNetworkDrive(o) == o = "yes"

\* _detect_via_powershell (lines 104-119) on the output "media|bus"
DetectViaPowershell(o) ==
    IF o = <<>> THEN "UNKNOWN"
    ELSE IF o[1] \in {"SSD", "4"}
         THEN (IF o[2] \in {"NVMe", "17"} THEN "NVME" ELSE "SSD")
    ELSE IF o[1] \in {"HDD", "3"} THEN "HDD"
    ELSE "UNKNOWN"

\* _detect_via_wmic (lines 130-143): o says whether the upper-cased output
\* holds 'SSD' or 'SOLID STATE', 'NVME', 'HDD' or 'HARD DISK'.
DetectViaWmic(o) ==
    IF o = <<>> THEN "UNKNOWN"
    ELSE IF o[1] THEN (IF o[2] THEN "NVME" ELSE "SSD")
    ELSE IF o[3] THEN "HDD"
    ELSE "UNKNOWN"

\* _detect_via_performance (lines 153-189): o is the measured IOPS.
DetectViaPerformance(o) ==
    IF o = <<>> THEN "UNKNOWN"
    ELSE IF o[1] > 1000 THEN "SSD"
    ELSE IF o[1] < 100 THEN "HDD"
    ELSE "SSD"

\* lines 58 and 63: if disk_type != 'UNKNOWN': return disk_type
ConclusiveAlways(t) == TRUE
Conclusive(t) == t # "UNKNOWN"

\* get_optimal_workers (lines 204-222)
WorkersUncapped(disk_type, cpu_count) ==
    CASE disk_type = "NVME" -> cpu_count * 4
      [] disk_type = "SSD" -> cpu_count * 2
      [] disk_type = "HDD" -> 2
      [] disk_type = "NETWORK" -> 1
      [] OTHER -> cpu_count * 2
Workers(disk_type, cpu_count) ==
    CASE disk_type = "NVME" -> Min(cpu_count * 4, 32)
      [] disk_type = "SSD" -> Min(cpu_count * 2, 16)
      [] disk_type = "HDD" -> 2
      [] disk_type = "NETWORK" -> 1
      [] OTHER -> Min(cpu_count * 2, 8)

\* detector: _cache is DiskDetector._cache; the rest is the call in
\* progress: its drive, the cpu_count when the call is get_optimal_workers
\* (<<>> when it is get_disk_type), the probes run so far with what each
\* observed and concluded, and what the call returned.
NoDetection ==
    [pc |-> "idle", drive |-> "C", cpu |-> <<>>, probes |-> <<>>, cached |-> FALSE,
     type |-> "UNKNOWN", workers |-> <<>>]
NoDetector == [_cache |-> <<>>] @@ NoDetection

\* get_disk_type (lines 30-34): a cached result is returned at once.
Detect(arg, cpu) ==
    /\ detector.pc = "idle"
    /\ LET drive == Normalise(arg)
       IN  detector' =
             IF drive \in DOMAIN detector._cache
             THEN [detector EXCEPT !.pc = "typed", !.drive = drive, !.cpu = cpu,
                                   !.probes = <<>>, !.cached = TRUE,
                                   !.type = detector._cache[drive], !.workers = <<>>]
             ELSE [detector EXCEPT !.pc = "net", !.drive = drive, !.cpu = cpu,
                                   !.probes = <<>>, !.cached = FALSE,
                                   !.type = "UNKNOWN", !.workers = <<>>]
    /\ UNCHANGED <<fsvars, now, HAS_WIN_SCANNER, max_workers, engvars, folder_cache, call,
                   tasks, last, cache_file, conn, general_cache, ret, analysis, more>>

get_disk_type(arg) == Detect(arg, <<>>)
get_optimal_workers(arg, cpu_count) == Detect(arg, <<cpu_count>>)

\* One probe of _detect_disk_type (lines 53-67) has run and concluded t:
\* the result is returned, or the next probe is tried.
Probed(name, o, t, nxt) ==
    [detector EXCEPT !.probes = Append(@, [name |-> name, out |-> o, verdict |-> t]),
                     !.type = t,
                     !.pc = IF Conclusive(t) \/ nxt = "typed" THEN "typed" ELSE nxt]

ProbeNetwork ==
    /\ detector.pc = "net"
    /\ \E o \in NetOutcomes :
          detector' = Probed("network", <<o>>,
                             IF IsNetworkDrive(o) THEN "NETWORK" ELSE "UNKNOWN", "ps")
    /\ UNCHANGED <<fsvars, now, HAS_WIN_SCANNER, max_workers, engvars, folder_cache, call,
                   tasks, last, cache_file, conn, general_cache, ret, analysis, more>>

ProbePowershell ==
    /\ detector.pc = "ps"
    /\ \E o \in PsOutcomes : detector' = Probed("powershell", o, DetectViaPowershell(o), "wmic")
    /\ UNCHANGED <<fsvars, now, HAS_WIN_SCANNER, max_workers, engvars, folder_cache, call,
                   tasks, last, cache_file, conn, general_cache, ret, analysis, more>>

ProbeWmic ==
    /\ detector.pc = "wmic"
    /\ \E o \in WmicOutcomes : detector' = Probed("wmic", o, DetectViaWmic(o), "perf")
    /\ UNCHANGED <<fsvars, now, HAS_WIN_SCANNER, max_workers, engvars, folder_cache, call,
                   tasks, last, cache_file, conn, general_cache, ret, analysis, more>>

ProbePerformance ==
    /\ detector.pc = "perf"
    /\ \E o \in PerfOutcomes :
          detector' = Probed("performance", o, DetectViaPerformance(o), "typed")
    /\ UNCHANGED <<fsvars, now, HAS_WIN_SCANNER, max_workers, engvars, folder_cache, call,
                   tasks, last, cache_file, conn, general_cache, ret, analysis, more>>

\* line 38, self._cache[drive] = disk_type, and the return of the call:
\* get_optimal_workers goes on to lines 204-222.
Classified ==
    /\ detector.pc = "typed"
    /\ detector' =
          [detector EXCEPT
              !.pc = "idle",
              !._cache = [d \in DOMAIN @ \cup {detector.drive} |->
                             IF d = detector.drive THEN detector.type ELSE @[d]],
              !.workers = IF detector.cpu = <<>> THEN <<>>
                          ELSE <<Workers(detector.type, detector.cpu[1])>>]
    /\ UNCHANGED <<fsvars, now, HAS_WIN_SCANNER, max_workers, engvars, folder_cache, call,
                   tasks, last, cache_file, conn, general_cache, ret, analysis, more>>

\* ------------------------------------------------------ the drive analyses
\* get_drive_quick_analysis (scanner_engine.py:287-335, with
\* scan_drive_folders_parallel) and get_drive_analysis
\* (disk_scanner.py:89-374), from the results of the folder scans onwards.
\* Sizes are in MiB.  folders grows by the result of one completed future
\* at a time and is sorted in place at the end.
UsedSizes == {1, 120}
RootFileSizes == 0..MaxSize

Folder(size) == [name |-> "folder", size |-> size]
Second(a, b) == b
Max(a, b) == IF a > b THEN a ELSE b

\* folders[:15]
FirstFolders(fs) == SubSeq(fs, 1, Min(Len(fs), 15))

\* The dict an analysis starts with (scanner_engine.py:290-297,
\* disk_scanner.py:115-121).  The quick one has no top_folders key until
\* line 323; the readers take a missing key for the empty list
\* (ui_components.py:327).
NoAnalysis ==
    [pc |-> "idle", mode |-> "quick", cut |-> "no",
     used_size |-> 0, root_files_size |-> 0, folders |-> <<>>, top_folders |-> <<>>,
     scanned_total |-> 0, other_size |-> 0, complete |-> FALSE]

\* What an analysis returns when it did not reach its last lines: the
\* dict it started with, and the usage figures when psutil gave them.
Abandoned(pc, cut, used) ==
    [NoAnalysis EXCEPT !.pc = pc, !.mode = analysis.mode, !.cut = cut, !.used_size = used]

\* scanner_engine.py:314-325; fs is what scan_drive_folders_parallel
\* returned, sorted at line 284.
AssembleQuick(fs, used, cut) ==
    LET total == SumSizes(fs)
    IN  [pc |-> "returned", mode |-> "quick", cut |-> cut,
         used_size |-> used, root_files_size |-> 0, folders |-> fs,
         top_folders |-> FirstFolders(fs), scanned_total |-> total,
         other_size |-> Max(0, used - total), complete |-> TRUE]

\* disk_scanner.py:338-369; sorted is the list that line 335 sorted.
AssembleDeep(sorted, used, root_files_size) ==
    LET total == SumSizes(sorted) + root_files_size
        other == Max(0, used - total)
        with_other == IF other > 100
                      THEN Append(sorted, [name |-> "other", size |-> other])
                      ELSE sorted
        with_root == IF root_files_size > 0
                     THEN Append(with_other, [name |-> "root_files", size |-> root_files_size])
                     ELSE with_other
        fs == SortBySize(with_root)
    IN  [pc |-> "returned", mode |-> "deep", cut |-> "no",
         used_size |-> used, root_files_size |-> root_files_size, folders |-> fs,
         top_folders |-> FirstFolders(fs), scanned_total |-> total,
         other_size |-> other, complete |-> TRUE]

\* get_drive_quick_analysis, lines 299-311.  When psutil.disk_usage raises,
\* line 333 calls the callback in the handler: if that raises too, the
\* exception leaves the method.
get_drive_quick_analysis(usage_ok, raises) ==
    /\ analysis.pc \in {"idle", "returned", "raised"}
    /\ analysis' =
          IF usage_ok THEN [NoAnalysis EXCEPT !.pc = "scan"]
          ELSE [NoAnalysis EXCEPT !.pc = IF raises THEN "raised" ELSE "returned",
                                  !.cut = IF raises THEN "callback" ELSE "no"]
    /\ UNCHANGED <<fsvars, now, HAS_WIN_SCANNER, max_workers, engvars, folder_cache, call,
                   tasks, last, cache_file, conn, general_cache, ret, detector, more>>

\* get_drive_analysis, lines 123-132.  Line 132 calls the callback inside
\* the outer try: if it raises, line 371 catches and the dict of lines
\* 115-121 is returned.
get_drive_analysis(usage_ok, raises) ==
    /\ analysis.pc \in {"idle", "returned", "raised"}
    /\ IF usage_ok /\ ~raises
       THEN analysis' = [NoAnalysis EXCEPT !.pc = "scan", !.mode = "deep"]
       ELSE IF usage_ok
       THEN \E used \in UsedSizes :
               analysis' = [NoAnalysis EXCEPT !.pc = "returned", !.mode = "deep",
                                              !.cut = "callback", !.used_size = used]
       ELSE analysis' = [NoAnalysis EXCEPT !.pc = "returned", !.mode = "deep"]
    /\ UNCHANGED <<fsvars, now, HAS_WIN_SCANNER, max_workers, engvars, folder_cache, call,
                   tasks, last, cache_file, conn, general_cache, ret, detector, more>>

\* One future completes and its result joins folders
\* (scanner_engine.py:245-270, disk_scanner.py:248-278); the callback may
\* be called.  raises counts the consecutive calls of the callback that
\* raise, from the first one:
\*   quick  1: line 265 or 267, caught at 268; line 270 returns: loop goes on
\*          2: line 270 too, caught at 280; line 282 returns: the folders so
\*             far are sorted and returned to get_drive_quick_analysis
\*          3: line 282 too, caught at 331; line 333 returns
\*          4: line 333 too: the exception leaves get_drive_quick_analysis
\*   deep   1: line 269 or 271, caught at 274; line 277 returns: loop goes on
\*          2: line 277 too, caught at 371: the dict of lines 115-121
Completed(size, raises) ==
    /\ analysis.pc = "scan"
    /\ Len(analysis.folders) < MaxFolders
    /\ LET rs == Append(analysis.folders, Folder(size))
           fs == SortBySize(rs)
       IN  IF raises <= 1
           THEN analysis' = [analysis EXCEPT !.folders = rs]
           ELSE IF analysis.mode = "deep"
           THEN /\ raises = 2
                /\ \E used \in UsedSizes : analysis' = Abandoned("returned", "callback", used)
           ELSE \E used \in UsedSizes :
                   analysis' = CASE raises = 2 -> AssembleQuick(fs, used, "callback")
                                 [] raises = 3 -> Abandoned("returned", "callback", used)
                                 [] OTHER -> Abandoned("raised", "callback", used)
    /\ UNCHANGED <<fsvars, now, HAS_WIN_SCANNER, max_workers, engvars, folder_cache, call,
                   tasks, last, cache_file, conn, general_cache, ret, detector, more>>

\* The loop of scan_drive_folders_parallel ends, every future consumed or
\* the stop flag seen (line 242), and get_drive_quick_analysis goes on to
\* its last lines.  The callback is called at lines 274 and 278 when there
\* is something to report, and at line 329.  stopped tells whether the
\* stop flag ended the loop, used is the used size psutil gave.  raises:
\*   0: no call raises
\*   1: line 274 or 278, caught at 280, and line 282 too, caught at 331;
\*      line 333 returns
\*   2: line 333 too, or line 329 and line 333
FinishQuick(raises) ==
    /\ analysis.pc = "scan"
    /\ analysis.mode = "quick"
    /\ LET fs == SortBySize(analysis.folders)
       IN  \E stopped \in BOOLEAN, used \in UsedSizes :
              analysis' =
                 CASE raises = 0 -> AssembleQuick(fs, used, IF stopped THEN "stop" ELSE "no")
                   [] raises = 1 -> Abandoned("returned", "callback", used)
                   [] OTHER -> Abandoned("raised", "callback", used)
    /\ UNCHANGED <<fsvars, now, HAS_WIN_SCANNER, max_workers, engvars, folder_cache, call,
                   tasks, last, cache_file, conn, general_cache, ret, detector, more>>

\* The loop of get_drive_analysis ends, every future consumed, and lines
\* 335-369 run; they call no callback.  used is the used size psutil gave,
\* root_files_size the sum of the files of the root (lines 144-153).
FinishDeep ==
    /\ analysis.pc = "scan"
    /\ analysis.mode = "deep"
    /\ LET sorted == SortBySize(analysis.folders)
       IN  \E used \in UsedSizes, root_files_size \in RootFileSizes :
              analysis' = AssembleDeep(sorted, used, root_files_size)
    /\ UNCHANGED <<fsvars, now, HAS_WIN_SCANNER, max_workers, engvars, folder_cache, call,
                   tasks, last, cache_file, conn, general_cache, ret, detector, more>>

\* ------------------------------------------------ the movable folders
\* The entries of the folder lists, sizes in MiB.  movable is <<>> while the
\* entry has no such field and <<b>> once it has.
MovableMin == 1        \* scanner_engine.py:320, 1 * 1024 * 1024
MIN_MOVABLE_SIZE == 10 \* main.py:19, 10 * 1024 * 1024
FolderSizes == 0..MaxMiB

NoFolder ==
    [origin |-> "none", size |-> 0, is_system |-> FALSE, movable |-> <<>>,
     updated |-> FALSE]

\* scanner_engine.py:320 and disk_scanner.py:256:
\* not folder['is_system'] and folder['size'] > 1 * 1024 * 1024
MovableAtLeast(is_system, size) == ~is_system /\ size >= MovableMin
Movable(is_system, size) == ~is_system /\ size > MovableMin

\* get_drive_quick_analysis, lines 318-320: a folder of the root of the
\* drive, as scan_folder returned it, gets its movable field.
QuickFolder(is_system, size) ==
    /\ folder' = [origin |-> "quick", size |-> size, is_system |-> is_system,
                  movable |-> <<Movable(is_system, size)>>, updated |-> FALSE]
    /\ UNCHANGED <<scanning, HAS_WIN_SCANNER, max_workers, cache_file, conn,
                   general_cache, ret, detector, analysis, _lock, thr>>

\* DiskScanner.get_drive_analysis, lines 248-256: the same for a folder of
\* the deep analysis.
DeepFolder(is_system, size) ==
    /\ folder' = [origin |-> "deep", size |-> size, is_system |-> is_system,
                  movable |-> <<Movable(is_system, size)>>, updated |-> FALSE]
    /\ UNCHANGED <<scanning, HAS_WIN_SCANNER, max_workers, cache_file, conn,
                   general_cache, ret, detector, analysis, _lock, thr>>

\* DiskScanner.get_drive_analysis, lines 353-361: the entry for the files
\* of the root directory, built when their size is above 0, with no movable
\* field.
RootFilesEntry(size) ==
    /\ size > 0
    /\ folder' = [origin |-> "root_files", size |-> size, is_system |-> FALSE,
                  movable |-> <<>>, updated |-> FALSE]
    /\ UNCHANGED <<scanning, HAS_WIN_SCANNER, max_workers, cache_file, conn,
                   general_cache, ret, detector, analysis, _lock, thr>>

\* on_folder_expand, main.py lines 808-851: a subfolder whose listing
\* succeeds ("ok") is measured; one whose listing raises PermissionError
\* ("denied") or another exception ("error") has size 0.
ExpandFolder(access, size) ==
    /\ LET access_denied == access = "denied"
           scan_error == access = "error"
           sz == IF access = "ok" THEN size ELSE 0
       IN  folder' = [origin |-> "expand", size |-> sz,
                      is_system |-> access_denied \/ scan_error,
                      movable |-> <<sz > MovableMin /\ ~access_denied>>,
                      updated |-> FALSE]
    /\ UNCHANGED <<scanning, HAS_WIN_SCANNER, max_workers, cache_file, conn,
                   general_cache, ret, detector, analysis, _lock, thr>>

\* _update_movable_folders, main.py lines 116-124, on the folders of a quick
\* or deep analysis: an entry without a movable field gets one.
_update_movable_folders ==
    /\ folder.origin \in {"quick", "deep", "root_files"}
    /\ ~folder.updated
    /\ folder' = [folder EXCEPT
            !.movable = IF @ = <<>>
                        THEN <<~folder.is_system /\ folder.size > MIN_MOVABLE_SIZE>>
                        ELSE @,
            !.updated = TRUE]
    /\ UNCHANGED <<scanning, HAS_WIN_SCANNER, max_workers, cache_file, conn,
                   general_cache, ret, detector, analysis, _lock, thr>>

\* ------------------------------------------------------------ the threads
\* The threads of the process: the application's own and the workers of the
\* pools.  Each runs one operation at a time.
Threads == 0..MaxWorkers

\* The counters of the engine that the workers increment (lines 88, 91, 108,
\* 128, 131).
Counters ==
    {"cache_hits", "cache_misses", "skipped_loops", "total_files", "total_folders"}

Idle ==
    [op |-> "idle", pc |-> "idle", c |-> "", tmp |-> 0,
     done |-> [c \in Counters |-> 0]]

\* The operations of ScanCache that take self._lock (lines 87, 127, 156) and
\* those that do not: get, which deletes an expired entry (lines 77-80), and
\* clear (lines 98-105).
LockedOps == {"set", "get_folder_cache", "set_folder_cache"}
UnlockedOps == {"get", "clear"}
MutatingOps == {"set", "set_folder_cache", "get", "clear"}

\* Thread t calls operation op of the shared ScanCache: an operation that
\* locks waits at its with statement, another is in the store at once.
Begin(t, op) ==
    /\ thr[t].pc = "idle"
    /\ thr' = [thr EXCEPT ![t].op = op,
                          ![t].pc = IF op \in LockedOps THEN "lock" ELSE "in"]
    /\ UNCHANGED <<scanning, HAS_WIN_SCANNER, max_workers, cache_file, conn,
                   general_cache, ret, detector, analysis, folder, _lock>>

\* with self._lock: the thread enters when the lock is free.
Acquire(t) ==
    /\ thr[t].pc = "lock"
    /\ _lock = <<>>
    /\ _lock' = <<t>>
    /\ thr' = [thr EXCEPT ![t].pc = "in"]
    /\ UNCHANGED <<scanning, HAS_WIN_SCANNER, max_workers, cache_file, conn,
                   general_cache, ret, detector, analysis, folder>>

\* The statements on the store are done (execute, commit or fetchone); a
\* with block is left and its lock released.
Leave(t) ==
    /\ thr[t].pc = "in"
    /\ _lock' = IF _lock = <<t>> THEN <<>> ELSE _lock
    /\ thr' = [thr EXCEPT ![t].op = "idle", ![t].pc = "idle"]
    /\ UNCHANGED <<scanning, HAS_WIN_SCANNER, max_workers, cache_file, conn,
                   general_cache, ret, detector, analysis, folder>>

RECURSIVE SumCounts(_, _)
SumCounts(f, S) ==
    IF S = {} THEN 0
    ELSE LET c == CHOOSE x \in S : TRUE IN f[c] + SumCounts(f, S \ {c})

\* The value of counter c.
Value(c) ==
    IF c = "cache_hits" THEN cache_hits
    ELSE IF c = "cache_misses" THEN cache_misses
    ELSE scan_stats[c]

Events(t) == SumCounts(thr[t].done, Counters)

\* The steps of a scan above take each increment as one step; here it is
\* the two accesses the statement makes.
\* x += 1, first half: the thread reads the counter.
Load(t, c) ==
    /\ thr[t].pc = "idle"
    /\ Events(t) < MaxEvents
    /\ thr' = [thr EXCEPT ![t].op = "count", ![t].pc = "loaded", ![t].c = c,
                          ![t].tmp = Value(c)]
    /\ UNCHANGED <<scanning, HAS_WIN_SCANNER, max_workers, cache_file, conn,
                   general_cache, ret, detector, analysis, folder, _lock>>

\* x += 1, second half: the thread writes what it read plus one.
Store(t) ==
    /\ thr[t].pc = "loaded"
    /\ LET c == thr[t].c
           v == thr[t].tmp + 1
       IN  /\ cache_hits' = IF c = "cache_hits" THEN v ELSE cache_hits
           /\ cache_misses' = IF c = "cache_misses" THEN v ELSE cache_misses
           /\ scan_stats' = IF c \in DOMAIN scan_stats
                            THEN [scan_stats EXCEPT ![c] = v] ELSE scan_stats
           /\ thr' = [thr EXCEPT ![t] = [Idle EXCEPT !.done =
                                            [thr[t].done EXCEPT ![c] = @ + 1]]]
    /\ UNCHANGED <<fsvars, now, stop_flag, scanned_inodes, folder_cache, call,
                   tasks, last, HAS_WIN_SCANNER, max_workers, cache_file, conn,
                   general_cache, ret, detector, analysis, folder, _lock>>

\* ---------------------------------------------------- the specification
\* After construction (scanner_engine.py:18-31) with an empty store.
InitScan ==
    /\ \E par \in Shapes, unit \in 0..MaxSize, lnk \in Links :
           /\ ents = MkEnts(par, unit, lnk)
           /\ bad \in Failures(ents)
           /\ lnk # <<>> => bad = {}
    /\ mtime = [d \in Dirs |-> 0]
    /\ now = 0
    /\ HAS_WIN_SCANNER \in BOOLEAN
    /\ max_workers \in 1..MaxWorkers
    /\ stop_flag = FALSE
    /\ scanned_inodes = {}
    /\ cache_hits = 0
    /\ cache_misses = 0
    /\ scan_stats = [total_folders |-> 0, total_files |-> 0, total_bytes |-> 0,
                     skipped_loops |-> 0]
    /\ folder_cache = <<>>
    /\ call = NoCall
    /\ tasks = NoTasks
    /\ last = NoCall

\* The engine holds a cache whose store opened; no detection and no
\* analysis has been asked for.
Init ==
    /\ InitScan
    /\ cache_file = "ok"
    /\ conn = "open"
    /\ general_cache = <<>>
    /\ ret = NoRet
    /\ detector = NoDetector
    /\ analysis = NoAnalysis
    /\ folder = NoFolder
    /\ _lock = <<>>
    /\ thr = [t \in Threads |-> Idle]

Step(p) ==
    \/ Enter(p)
    \/ Win(p)
    \/ Inode(p)
    \/ AddInode(p)
    \/ List(p)
    \/ Entry(p)
    \/ Fanout(p)
    \/ Await(p)
    \/ Join(p)
    \/ Commit(p)

DriveStep ==
    \/ DriveStart
    \/ DriveList
    \/ DriveAwait
    \/ DriveJoin
    \/ DriveSort

\* One call on a new engine, with every interleaving of its tasks and of
\* stop_scan; afterwards the directories change and time passes.
Next ==
    \/ \E md \in DepthArgs, uc \in BOOLEAN, fl \in BOOLEAN :
          call.n = 0 /\ Call(md, uc, fl)
    \/ call.n = 0 /\ CallDrive
    \/ \E p \in Started : Step(p)
    \/ DriveStep
    \/ Return
    \/ stop_scan
    \/ \E d \in Dirs : Mutate(d)
    \/ Tick

Spec == Init /\ [][Next]_vars

\* Every thread that can take a step eventually takes one: the tasks run on
\* operating-system threads, the caller on its own.
InitLive == Init /\ bad = {}

NextLive ==
    \/ \E md \in DepthArgs, uc \in BOOLEAN, fl \in BOOLEAN :
          call.n = 0 /\ Call(md, uc, fl)
    \/ call.n = 0 /\ CallDrive
    \/ \E p \in Started : Step(p)
    \/ DriveStep
    \/ Return
    \/ stop_scan

FairSpec ==
    /\ InitLive
    /\ [][NextLive]_vars
    /\ WF_vars(\E p \in Started : Step(p))
    /\ WF_vars(DriveStep)
    /\ WF_vars(Return)

\* Up to MaxCalls calls of get_folder_size_parallel in a row on one engine
\* and one unchanged tree, with no error and no cancellation, the caller
\* keeping use_cache and follow_symlinks from call to call; time passes
\* between the calls.
InitSeq == Init /\ bad = {}

NextSeq ==
    \/ \E md \in DepthArgs, uc \in BOOLEAN, fl \in BOOLEAN :
          /\ call.n < MaxCalls
          /\ call.n > 0 => uc = call.use_cache /\ fl = call.follow
          /\ Call(md, uc, fl)
    \/ \E p \in Started : Step(p)
    \/ Return
    \/ Tick

SpecSeq == InitSeq /\ [][NextSeq]_vars

\* One flat tree, nothing failing, the engine idle.
InitOneTree ==
    /\ InitScan
    /\ ents = MkEnts([d \in 2..MaxDirs |-> Root], MaxSize, <<>>)
    /\ bad = {}
    /\ ~HAS_WIN_SCANNER
    /\ max_workers = 1

\* Calls of get_folder_size_parallel with the cache on, in a row on one
\* engine, one worker per pool, on a tree without links where nothing fails
\* at first; between the calls time passes and directories change, are
\* deleted or made inaccessible.
InitGone ==
    /\ Init
    /\ bad = {}
    /\ max_workers = 1
    /\ \A d \in Dirs : \A i \in 1..Len(ents[d]) : ents[d][i].k # "link"

NextGone ==
    \/ \E md \in DepthArgs, fl \in BOOLEAN :
          /\ call.n < MaxCalls
          /\ Call(md, TRUE, fl)
    \/ \E p \in Started : Step(p)
    \/ Return
    \/ \E d \in Dirs : Mutate(d)
    \/ \E d \in Dirs : Vanish(d)
    \/ Tick

SpecGone == InitGone /\ [][NextGone]_vars

\* One call of get_folder_size_parallel with the cache on, on a tree without
\* links where nothing fails, while another process adds files to the
\* directories already listed.
InitTouch ==
    /\ Init
    /\ bad = {}
    /\ \A d \in Dirs : \A i \in 1..Len(ents[d]) : ents[d][i].k # "link"

NextTouch ==
    \/ \E md \in DepthArgs, fl \in BOOLEAN : call.n = 0 /\ Call(md, TRUE, fl)
    \/ \E p \in Started : Step(p)
    \/ Return
    \/ \E d \in Dirs : Touch(d)

SpecTouch == InitTouch /\ [][NextTouch]_vars

\* ------------------------------------- get_drive_analysis: scan_one_folder
\* disk_scanner.py, scan_one_folder(path, ...), the root being the folder:
\* size = engine.get_folder_size_parallel(path, max_depth=None,
\* use_cache=True, follow_symlinks=True).
scan_one_folder == Call(NoDepth, TRUE, TRUE)

\* The same, once size is known: entries = list(os.scandir(path)), and for
\* an entry with entry.is_dir(follow_symlinks=False), sub_size =
\* engine.get_folder_size_parallel(entry.path, max_depth=None,
\* use_cache=True, follow_symlinks=True). The folder's size stays in last.
sub_size(i) ==
    /\ ~call.active
    /\ call.n > 0
    /\ call.kind = "size" /\ call.at = <<>>
    /\ call.md = NoDepth /\ call.use_cache /\ call.follow
    /\ <<Root>> \notin bad
    /\ i \in 1..Len(ents[Root])
    /\ ents[Root][i].k = "dir"
    /\ call' = [n |-> call.n + 1, active |-> TRUE, kind |-> "size", at |-> <<i>>,
                md |-> NoDepth, use_cache |-> TRUE, follow |-> TRUE, cut |-> FALSE,
                folders |-> <<>>, hits0 |-> cache_hits, misses0 |-> cache_misses,
                loops0 |-> scan_stats.skipped_loops, seen0 |-> scanned_inodes,
                stop0 |-> stop_flag, mtime0 |-> mtime, now0 |-> now,
                listed |-> 0, commits |-> {}, res |-> 0]
    /\ last' = call
    /\ tasks' = (<<i>> :> NewTask(NoDepth))
    /\ UNCHANGED <<fsvars, now, others, engvars, folder_cache>>

\* A quick scan's scan_folder call on the folder (max_depth given, the
\* defaults use_cache=True, follow_symlinks=True), or none, and then the
\* deep analysis of the folder on the same engine and store: its size, then
\* the size of one of its subfolders. Nothing fails, nothing is cancelled,
\* the tree does not change.
InitDeep == Init /\ bad = {}

NextDeep ==
    \/ \E md \in DepthArgs \ {NoDepth} : call.n = 0 /\ Call(md, TRUE, TRUE)
    \/ call.n <= 1 /\ (call.n = 1 => call.md # NoDepth) /\ scan_one_folder
    \/ \E i \in 1..(MaxDirs + 2) : sub_size(i)
    \/ \E p \in Started : Step(p)
    \/ Return

SpecDeep == InitDeep /\ [][NextDeep]_vars

\* A process constructs a ScanCache on the store file and calls it, the
\* folder table for the root path; the process ends and another starts;
\* time passes; the file may be damaged.
InitCache ==
    /\ InitOneTree
    /\ cache_file \in {"ok", "corrupt"}
    /\ conn = "none"
    /\ general_cache = <<>>
    /\ ret = NoRet
    /\ detector = NoDetector
    /\ analysis = NoAnalysis
    /\ folder = NoFolder
    /\ _lock = <<>>
    /\ thr = [t \in Threads |-> Idle]

NextCache ==
    \/ ScanCacheInit
    \/ \E key \in Keys, data \in Blobs : set(key, data)
    \/ \E key \in Keys : get(key)
    \/ \E key \in {<<>>} \cup {<<k>> : k \in Keys} : clear(key)
    \/ \E key \in Keys : get_cache_age(key)
    \/ FolderLookup(<<>>)
    \/ \E size \in 0..MaxSize : FolderStore(<<>>, size)
    \/ Exit
    \/ Corrupt
    \/ Tick

SpecCache == InitCache /\ [][NextCache]_vars

\* Calls of get_disk_type and get_optimal_workers on one detector, one at
\* a time.
InitDet == InitOneTree /\ Init

NextDet ==
    \/ \E arg \in DriveArgs : get_disk_type(arg)
    \/ \E arg \in DriveArgs, cpu_count \in 1..MaxCpu : get_optimal_workers(arg, cpu_count)
    \/ ProbeNetwork
    \/ ProbePowershell
    \/ ProbeWmic
    \/ ProbePerformance
    \/ Classified

SpecDet == InitDet /\ [][NextDet]_vars

\* Drive analyses, one at a time, on up to MaxFolders root folders.
InitAn == InitOneTree /\ Init

NextAn ==
    \/ \E usage_ok \in BOOLEAN, raises \in BOOLEAN : get_drive_quick_analysis(usage_ok, raises)
    \/ \E usage_ok \in BOOLEAN, raises \in BOOLEAN : get_drive_analysis(usage_ok, raises)
    \/ \E size \in 0..MaxSize, raises \in 0..4 : Completed(size, raises)
    \/ \E raises \in 0..2 : FinishQuick(raises)
    \/ FinishDeep

SpecAn == InitAn /\ [][NextAn]_vars

\* The application builds the entries of its folder lists, one at a time.
InitMov == InitOneTree /\ Init

NextMov ==
    \/ \E is_system \in BOOLEAN, size \in FolderSizes : QuickFolder(is_system, size)
    \/ \E is_system \in BOOLEAN, size \in FolderSizes : DeepFolder(is_system, size)
    \/ \E size \in FolderSizes : RootFilesEntry(size)
    \/ \E access \in {"ok", "denied", "error"}, size \in FolderSizes :
          ExpandFolder(access, size)
    \/ _update_movable_folders

SpecMov == InitMov /\ [][NextMov]_vars

\* The threads of the process call the shared ScanCache, in any order and
\* at any time.
InitLock == InitOneTree /\ Init

NextLock ==
    \/ \E t \in Threads, op \in LockedOps \cup UnlockedOps : Begin(t, op)
    \/ \E t \in Threads : Acquire(t)
    \/ \E t \in Threads : Leave(t)

SpecLock == InitLock /\ [][NextLock]_vars

\* The threads of one scan increment the counters of the engine, at most
\* MaxEvents times each.
InitCount == InitOneTree /\ Init

NextCount ==
    \/ \E t \in Threads, c \in Counters : Load(t, c)
    \/ \E t \in Threads : Store(t)

SpecCount == InitCount /\ [][NextCount]_vars

\* ================================================================ claims
\* What the properties speak of.
Returned1 == call.n = 1 /\ ~call.active /\ call.kind = "size"
Unchanged1 == mtime = call.mtime0

IsSub(e, follow) == e.k = "dir" \/ (e.k = "link" /\ follow)
SubsOf(d, follow) ==
    {ents[d][i].to : i \in {j \in 1..Len(ents[d]) : IsSub(ents[d][j], follow)}}

\* The identities reachable from those of S.
RECURSIVE ReachFrom(_, _)
ReachFrom(S, follow) ==
    LET T == S \cup UNION {SubsOf(d, follow) : d \in S}
    IN  IF T = S THEN S ELSE ReachFrom(T, follow)

RECURSIVE FilesFrom(_, _)
FilesFrom(d, i) ==
    IF i > Len(ents[d]) THEN 0
    ELSE (IF ents[d][i].k = "file" THEN ents[d][i].sz ELSE 0) + FilesFrom(d, i + 1)

DirectFiles(d) == FilesFrom(d, 1)

RECURSIVE SumOver(_)
SumOver(S) ==
    IF S = {} THEN 0
    ELSE LET d == CHOOSE x \in S : TRUE IN DirectFiles(d) + SumOver(S \ {d})

ReachableBytes(follow) == SumOver(ReachFrom({Root}, follow))

\* C1: with no cancellation and no errors, an unbounded scan returns the sum
\* of the sizes of the regular files reachable from the root, each directory
\* identity counted once.
C1_ExactTotal ==
    (Returned1 /\ Unchanged1 /\ call.md = NoDepth /\ ~stop_flag /\ bad = {})
        => call.res = ReachableBytes(call.follow)

\* C1 holds while one worker runs at a time.
C1_OneWorker ==
    (Returned1 /\ Unchanged1 /\ call.md = NoDepth /\ ~stop_flag /\ bad = {}
        /\ max_workers = 1)
        => call.res = ReachableBytes(call.follow)

\* The links of the tree, as pairs <<directory holding the link, target>>.
LinkPairs ==
    {<<x[1], ents[x[1]][x[2]].to>> :
        x \in {y \in Dirs \X (1..(MaxDirs + 2)) :
                  y[2] <= Len(ents[y[1]]) /\ ents[y[1]][y[2]].k = "link"}}

RealParentOf(d) ==
    CHOOSE a \in Dirs : \E i \in 1..Len(ents[a]) : ents[a][i] = DirEntry(d)

RECURSIVE Level(_)
Level(d) == IF d = Root THEN 0 ELSE 1 + Level(RealParentOf(d))

RECURSIVE AncOrSelf(_)
AncOrSelf(d) == IF d = Root THEN {Root} ELSE {d} \cup AncOrSelf(RealParentOf(d))

\* A link that makes its own directory reachable from itself.
SelfRefLinks == {l \in LinkPairs : l[2] \in AncOrSelf(l[1])}

\* The scan goes deep enough to enter the link.
EntersLink(md, l) == md = NoDepth \/ md[1] > Level(l[1])

\* C2: on a tree with a self-referential link, a scan that follows links
\* ends with the cycle-skip counter above zero and a total that counts no
\* directory twice.
C2_CycleSafe ==
    (Returned1 /\ Unchanged1 /\ call.follow /\ ~stop_flag /\ bad = {}
        /\ \E l \in SelfRefLinks : EntersLink(call.md, l))
        => /\ scan_stats.skipped_loops > 0
           /\ call.res <= ReachableBytes(TRUE)

\* C2 holds of the scans that do not go through the accelerator.
C2_Generic ==
    (Returned1 /\ Unchanged1 /\ call.follow /\ ~stop_flag /\ bad = {}
        /\ ~UseWin(call.md)
        /\ \E l \in SelfRefLinks : EntersLink(call.md, l))
        => /\ scan_stats.skipped_loops > 0
           /\ call.res <= ReachableBytes(TRUE)

\* C3, as stated: a second call with caching enabled on the unchanged tree
\* returns the first call's size, as a cache hit at the root: no miss is
\* counted and no directory is listed.
Returned2 ==
    call.n = 2 /\ ~call.active /\ call.kind = "size" /\ last.kind = "size"
SameArgs ==
    call.md = last.md /\ call.use_cache = last.use_cache /\ call.follow = last.follow

\* The second call starts before a record written by the first expires.
InTime == call.now0 - last.now0 <= expire_seconds

PureHit ==
    /\ call.res = last.res
    /\ cache_hits = call.hits0 + 1
    /\ cache_misses = call.misses0
    /\ call.listed = 0
    /\ call.commits = {}

C3_Idempotent ==
    (Returned2 /\ SameArgs /\ call.use_cache /\ ~stop_flag /\ InTime) => PureHit

\* C3, amended: the same, when the first call returned a size above zero
\* (a total of 0 is not recorded, line 160).
C3_IdempotentNonZero ==
    (Returned2 /\ SameArgs /\ call.use_cache /\ ~stop_flag /\ InTime /\ last.res > 0)
        => PureHit

C3_Witness ==
    /\ Returned2 /\ SameArgs /\ call.use_cache /\ ~stop_flag /\ InTime
    /\ last.res > 0 /\ last.listed > 1
    /\ PureHit

\* C4: when a directory is mutated, the next get_folder_entry of every path
\* that resolves to it reports absent, and that of every other path reports
\* what it reported before.
C4_Invalidation ==
    [][\A d \in Dirs :
          mtime'[d] > mtime[d] =>
              \A p \in DOMAIN folder_cache :
                  IF Resolve(ents, p) = d
                  THEN get_folder_cache(p)' = <<>>
                  ELSE get_folder_cache(p)' = get_folder_cache(p)]_vars

C4_Witness ==
    /\ mtime[Root] > 0
    /\ <<>> \in DOMAIN folder_cache
    /\ ~Expired(folder_cache[<<>>])
    /\ get_folder_cache(<<>>) = <<>>
    /\ \E p \in DOMAIN folder_cache :
           /\ p # <<>>
           /\ mtime[Resolve(ents, p)] = 0
           /\ get_folder_cache(p) # <<>>

\* C5: once the stop flag is set, no record is committed to the cache.
C5_NoCommitAfterStop == [][stop_flag => folder_cache' = folder_cache]_vars

\* C6: a call that is running when the stop flag is set eventually returns.
C6_StopReturns == (call.active /\ stop_flag) ~> ~call.active

\* A parent left its as_completed loop on the stop flag and the call returned.
C6_Witness == ~call.active /\ call.n = 1 /\ call.cut /\ stop_flag

\* C7: max_depth = 0 returns the sum of the sizes of the regular files
\* directly inside the directory.
C7_DepthZero ==
    (Returned1 /\ Unchanged1 /\ call.md = <<0>> /\ ~stop_flag /\ bad = {})
        => call.res = DirectFiles(Root)

\* C8, as stated: max_depth = 0 or negative returns 0 without listing the
\* directory.
C8_ZeroOrNegative ==
    (Returned1 /\ IsFinite(call.md) /\ call.md[1] <= 0)
        => call.res = 0 /\ call.listed = 0

\* C8, amended: a negative max_depth returns 0 without listing the directory
\* and without consulting the cache.
C8_Negative ==
    (Returned1 /\ IsFinite(call.md) /\ call.md[1] < 0)
        => /\ call.res = 0
           /\ call.listed = 0
           /\ cache_hits = call.hits0
           /\ cache_misses = call.misses0

C8_Witness ==
    /\ Returned1 /\ Unchanged1 /\ IsFinite(call.md) /\ call.md[1] < 0
    /\ ~stop_flag /\ bad = {} /\ call.use_cache
    /\ DirectFiles(Root) > 0
    /\ call.res = 0

\* C9: on one unchanged tree, the unbounded result is at least the result
\* of any depth-bounded scan (here made after the unbounded one).
C9_UnboundedDominates ==
    (Returned2 /\ last.md = NoDepth /\ IsFinite(call.md) /\ ~stop_flag)
        => last.res >= call.res

\* What the generic path adds up on a tree without links: the files whose
\* stat succeeds, in the directories whose listing succeeds and that are
\* reached through entries whose stat succeeds, down to the depth limit.
RECURSIVE Accessible(_, _)
RECURSIVE AccessibleFrom(_, _, _)
Accessible(d, md) ==
    IF DepthExhausted(md) \/ <<d>> \in bad THEN 0 ELSE AccessibleFrom(d, md, 1)

AccessibleFrom(d, md, i) ==
    IF i > Len(ents[d]) THEN 0
    ELSE LET e == ents[d][i]
         IN  (IF <<d, i>> \in bad THEN 0
              ELSE IF e.k = "file" THEN e.sz
              ELSE Accessible(e.to, NextDepth(md)))
             + AccessibleFrom(d, md, i + 1)

\* C10: a failing entry contributes 0 and the rest of its directory is still
\* added up; a directory whose listing fails contributes 0 and gets no record.
C10_ErrorsStayLocal ==
    (call.n = 1 /\ ~call.active /\ Unchanged1 /\ ~stop_flag /\ LinkPairs = {})
        => /\ (call.kind = "size" /\ ~UseWin(call.md))
                  => call.res = Accessible(Root, call.md)
           /\ \A p \in call.commits : <<Resolve(ents, p)>> \notin bad
           /\ \A p \in DOMAIN folder_cache : <<Resolve(ents, p)>> \notin bad
           /\ <<Root>> \in bad => call.res = 0

\* The stat of one entry failed, or the listing of a subdirectory, and the
\* other entries were added up.
C10_Witness ==
    /\ call.n = 1 /\ ~call.active /\ Unchanged1 /\ ~stop_flag /\ call.kind = "size"
    /\ call.md = NoDepth
    /\ bad # {} /\ <<Root>> \notin bad
    /\ call.res > 0
    /\ call.res < ReachableBytes(call.follow)
    /\ call.res = Accessible(Root, call.md)

\* C11: an exception raised by the progress callback never leaves an
\* analysis and never cuts it short.
C11_CallbackIsolated == analysis.pc # "raised" /\ analysis.cut # "callback"

\* C12: get_folder_entry(path) returns (size, mtime) exactly when a record
\* of the path exists, its age is within the expiry window and the live
\* modification time is not newer than the recorded one; else absent.
C12_FolderEntry ==
    \A p \in DOMAIN folder_cache \cup DOMAIN tasks \cup {<<>>} :
        LET live == /\ p \in DOMAIN folder_cache
                    /\ now - folder_cache[p].cache_time <= expire_seconds
                    /\ mtime[Resolve(ents, p)] <= folder_cache[p].mtime
        IN  IF live
            THEN get_folder_cache(p) = <<folder_cache[p].size, folder_cache[p].mtime>>
            ELSE get_folder_cache(p) = <<>>

\* A record whose age is the whole expiry window is still returned.
C12_Witness ==
    /\ <<>> \in DOMAIN folder_cache
    /\ now - folder_cache[<<>>].cache_time = expire_seconds
    /\ folder_cache[<<>>].size > 0
    /\ get_folder_cache(<<>>) = <<folder_cache[<<>>].size, folder_cache[<<>>].mtime>>

\* C13: on a readable store, get(key) of an entry older than the TTL
\* returns absent and removes the entry; get(key) of an entry within the
\* TTL returns the data last set for the key and leaves the store as it is.
C13_GetEvictsOrReturns ==
    [][\A key \in Keys :
          (get(key) /\ cache_file = "ok" /\ key \in DOMAIN general_cache) =>
              IF now - general_cache[key].timestamp > expire_seconds
              THEN ret'.val = <<>> /\ key \notin DOMAIN general_cache'
              ELSE ret'.val = ret.given[key] /\ general_cache' = general_cache]_vars

\* C13 holds of the data that JSON writes and reads back unchanged.
C13_JsonExact ==
    [][\A key \in Keys :
          (get(key) /\ cache_file = "ok" /\ key \in DOMAIN general_cache) =>
              IF now - general_cache[key].timestamp > expire_seconds
              THEN ret'.val = <<>> /\ key \notin DOMAIN general_cache'
              ELSE /\ ret.given[key][1].keys = "str" => ret'.val = ret.given[key]
                   /\ general_cache' = general_cache]_vars

\* C14: age(key) returns a duration only for an entry that get(key) would
\* still return: one that exists and is within the TTL.
C14_AgeOnlyOfLive ==
    [][\A key \in Keys :
          (get_cache_age(key) /\ ret'.val # <<>>) =>
              /\ key \in DOMAIN general_cache
              /\ now - general_cache[key].timestamp <= expire_seconds]_vars

\* C15: on a store file that is corrupt, constructing the cache does not
\* fail, a folder lookup is a miss and a folder write does nothing.
C15_StoreFaultTolerated ==
    /\ conn # "failed"
    /\ ret.op = "init" => ~ret.raised
    /\ (ret.op = "get_folder_cache" /\ ret.file # "ok") => (ret.val = <<>> /\ ~ret.raised)
    /\ ret.op = "set_folder_cache" => ~ret.raised

\* C16: recommended_workers is min(cpu_count*4, 32) for NVME,
\* min(cpu_count*2, 16) for SSD, 2 for HDD, 1 for NETWORK and
\* min(cpu_count*2, 8) for UNKNOWN.
C16_Workers ==
    (detector.pc = "idle" /\ detector.workers # <<>>) =>
        LET n == detector.cpu[1]
            t == detector.type
            w == detector.workers[1]
        IN  /\ t = "NVME" => w = (IF n * 4 < 32 THEN n * 4 ELSE 32)
            /\ t = "SSD" => w = (IF n * 2 < 16 THEN n * 2 ELSE 16)
            /\ t = "HDD" => w = 2
            /\ t = "NETWORK" => w = 1
            /\ t = "UNKNOWN" => w = (IF n * 2 < 8 THEN n * 2 ELSE 8)

\* The NVME limit of 32 applies.
C16_Witness ==
    /\ detector.pc = "idle"
    /\ detector.type = "NVME"
    /\ detector.cpu = <<MaxCpu>>
    /\ detector.workers = <<32>>

\* The storage-management query answered for a volume that is not a
\* network volume, and reported an NVMe bus.
NvmeBusReported ==
    /\ detector.pc = "idle"
    /\ ~detector.cached
    /\ Len(detector.probes) >= 2
    /\ detector.probes[1].out = <<"no">>
    /\ detector.probes[2].out # <<>>
    /\ detector.probes[2].out[2] \in {"NVMe", "17"}

\* C17: when the storage-management query reports bus type NVMe for a
\* non-network volume, classify returns NVME whatever the medium type, and
\* recommended_workers with cpu_count = 8 returns 32.
C17_NvmeBus ==
    NvmeBusReported =>
        /\ detector.type = "NVME"
        /\ detector.cpu = <<8>> => detector.workers = <<32>>

\* C17 holds when the medium type reported is SSD.
C17_SsdNvme ==
    (NvmeBusReported /\ detector.probes[2].out[1] \in {"SSD", "4"}) =>
        /\ detector.type = "NVME"
        /\ detector.cpu = <<8>> => detector.workers = <<32>>

ProbeOrder == <<"network", "powershell", "wmic", "performance">>
ProbeFailed(pr) == IF pr.name = "network" THEN pr.out = <<"fail">> ELSE Len(pr.out) = 0

\* C18: the probes run in the order network, storage-management query,
\* inventory query, performance probe; none runs after a conclusive one; a
\* failing probe is inconclusive; the result is that of the first
\* conclusive probe, and UNKNOWN exactly when all four are inconclusive.
C18_FirstConclusive ==
    LET ps == detector.probes
        n == Len(ps)
    IN  /\ n <= 4
        /\ \A i \in 1..n : ps[i].name = ProbeOrder[i]
        /\ \A i \in 1..n : i < n => ps[i].verdict = "UNKNOWN"
        /\ \A i \in 1..n : ProbeFailed(ps[i]) => ps[i].verdict = "UNKNOWN"
        /\ (detector.pc = "idle" /\ ~detector.cached /\ n > 0) =>
              /\ detector.type = ps[n].verdict
              /\ ps[n].verdict = "UNKNOWN" => n = 4
              /\ detector.type = "UNKNOWN" <=>
                    (n = 4 /\ \A i \in 1..n : ps[i].verdict = "UNKNOWN")

\* The storage-management query failed and the inventory query concluded.
C18_Witness ==
    /\ detector.pc = "idle"
    /\ ~detector.cached
    /\ Len(detector.probes) = 3
    /\ detector.probes[1].out = <<"fail">>
    /\ detector.probes[2].out = <<>>
    /\ detector.type = "HDD"

\* An analysis that reached its last lines with every folder scanned.
Completed19 == analysis.pc = "returned" /\ analysis.complete /\ analysis.cut = "no"

\* C19, as stated: in a completed analysis other_size is
\* max(0, used - scanned_total) and scanned_total + other_size is used_size.
C19_Totals ==
    Completed19 =>
        /\ analysis.other_size =
              (IF analysis.used_size - analysis.scanned_total > 0
               THEN analysis.used_size - analysis.scanned_total ELSE 0)
        /\ analysis.scanned_total + analysis.other_size = analysis.used_size

\* C19, amended: the sum is used_size when scanned_total does not exceed
\* used_size; when it does, other_size is 0.
C19_TotalsWithin ==
    Completed19 =>
        /\ analysis.other_size =
              (IF analysis.used_size - analysis.scanned_total > 0
               THEN analysis.used_size - analysis.scanned_total ELSE 0)
        /\ analysis.scanned_total <= analysis.used_size =>
              analysis.scanned_total + analysis.other_size = analysis.used_size
        /\ analysis.scanned_total > analysis.used_size => analysis.other_size = 0

C19_Witness ==
    /\ Completed19
    /\ analysis.mode = "deep"
    /\ analysis.root_files_size > 0
    /\ analysis.scanned_total > analysis.root_files_size
    /\ analysis.other_size > 0
    /\ analysis.scanned_total + analysis.other_size = analysis.used_size

C22_NoSubmitAfterStop ==
    [][stop_flag =>
          /\ (DOMAIN tasks' \ DOMAIN tasks) \subseteq {<<>>}
          /\ \A p \in DOMAIN tasks \cap DOMAIN tasks' :
                 tasks'[p].total = tasks[p].total]_vars

\* C22 for the recursive size computation alone, which tests the flag
\* (line 136) before it submits its children (lines 142-145), the test and
\* the submissions taken as one step.
C22_SizeCalls ==
    [][(stop_flag /\ call.kind = "size") =>
          /\ (DOMAIN tasks' \ DOMAIN tasks) \subseteq {<<>>}
          /\ \A p \in DOMAIN tasks \cap DOMAIN tasks' :
                 tasks'[p].total = tasks[p].total]_vars

\* The task of path p passed the test of lines 107-109 and has not returned.
PastCheck(p) ==
    tasks[p].pc \in {"add", "list", "ents", "fanout", "await", "join", "commit"}

SameIdentity(p, q) == p # q /\ Resolve(ents, p) = Resolve(ents, q)

\* C23: with link following on, at most one invocation at a time is past the
\* visited check for any one directory identity: the check and the recording
\* of the identity are atomic with respect to the other workers.
C23_AtomicCheckAndRecord ==
    call.follow =>
        \A p \in Started : \A q \in Started :
            SameIdentity(p, q) => ~(PastCheck(p) /\ PastCheck(q))

\* C23 holds when each pool has one worker.
C23_OneWorker == max_workers = 1 => C23_AtomicCheckAndRecord

\* The total of get_folder_size_parallel on directory d when the invocations
\* run one after another, each child to its end before the next starts, from
\* the visited set V and an empty store: the schedule a pool of one worker
\* produces.  The result carries the visited set the invocation leaves.
RECURSIVE SeqDir(_, _, _)
RECURSIVE SeqEntries(_, _, _, _)
SeqDir(d, md, V) ==
    IF DepthExhausted(md) THEN [res |-> 0, seen |-> V]
    ELSE IF UseWin(md) THEN [res |-> ScanRecursive(d, md[1], 0), seen |-> V]
    ELSE IF call.follow /\ d \in V THEN [res |-> 0, seen |-> V]
    ELSE LET V1 == IF call.follow THEN V \cup {d} ELSE V
         IN  IF <<d>> \in bad THEN [res |-> 0, seen |-> V1]
             ELSE SeqEntries(d, 1, NextDepth(md), V1)

SeqEntries(d, i, md, V) ==
    IF i > Len(ents[d]) THEN [res |-> 0, seen |-> V]
    ELSE LET e == ents[d][i]
         IN  IF <<d, i>> \in bad \/ (e.k = "link" /\ ~call.follow)
             THEN SeqEntries(d, i + 1, md, V)
             ELSE IF e.k = "file"
             THEN LET r == SeqEntries(d, i + 1, md, V)
                  IN  [res |-> e.sz + r.res, seen |-> r.seen]
             ELSE LET c == SeqDir(e.to, md, V)
                      r == SeqEntries(d, i + 1, md, c.seen)
                  IN  [res |-> c.res + r.res, seen |-> r.seen]

SeqTotal == SeqDir(Root, call.md, call.seen0).res

\* C24: on an unmodified tree, with no cancellation, the total a call returns
\* does not depend on the interleaving of its child tasks: it is the total of
\* the schedule that runs them one after another.
C24_OrderIndependent ==
    (Returned1 /\ Unchanged1 /\ ~stop_flag) => call.res = SeqTotal

\* C24 holds when link following is off, and when each pool has one worker.
C24_NoLinks ==
    (Returned1 /\ Unchanged1 /\ ~stop_flag /\ (~call.follow \/ max_workers = 1))
        => call.res = SeqTotal

\* The invocation of path p, about to execute lines 157-161, left its entry
\* loop (line 122), skipped its fan-out (line 136) or left its as_completed
\* loop (line 149) because it read the stop flag set.
ObservedStop(p) ==
    LET t == tasks[p]
    IN  /\ t.pc = "commit"
        /\ \/ t.i <= Len(ents[Resolve(ents, p)])
           \/ t.subdirs # <<>> /\ t.taken < Len(t.subdirs)

\* The step ends the invocation of path p with its total computed.
Completes(p) ==
    /\ p \in DOMAIN tasks'
    /\ tasks[p].pc \in {"commit", "win"}
    /\ tasks'[p].pc = "done"

\* The step writes the folder record of path p.
Written(p) ==
    \/ p \notin DOMAIN folder_cache /\ p \in DOMAIN folder_cache'
    \/ p \in DOMAIN folder_cache /\ folder_cache'[p] # folder_cache[p]

RecordRule(p) ==
    Written(p) <=> (call.use_cache /\ ~ObservedStop(p) /\ tasks'[p].res > 0)

\* C25: an invocation that ends writes its directory's record exactly when
\* caching is on, it did not observe the stop flag, and its size is not zero;
\* no stored record has size 0.
C25_RecordIffCompleted ==
    [][/\ \A p \in Started : Completes(p) => RecordRule(p)
       /\ \A p \in DOMAIN folder_cache' : folder_cache'[p].size > 0]_vars

\* C25 holds of the invocations that end while the stop flag is clear.
C25_NoStop ==
    [][/\ \A p \in Started : (Completes(p) /\ ~stop_flag) => RecordRule(p)
       /\ \A p \in DOMAIN folder_cache' : folder_cache'[p].size > 0]_vars

\* C28: at every directory, at every level, the child tasks of that directory
\* that run at one time are at most min(child_count, max_workers).
C28_FanoutCapped ==
    \A p \in Started :
        Cardinality(Running(p))
            <= Min(Cardinality(ChildrenOf(p)), max_workers)

\* C28: a directory below the root with two subdirectories and a pool of one
\* worker: one child runs while the other is queued.
C28_Witness ==
    /\ max_workers = 1
    /\ \E p \in Started :
           /\ p # <<>>
           /\ Len(tasks[p].subdirs) = 2
           /\ Cardinality(Running(p)) = 1
           /\ \E q \in ChildrenOf(p) : tasks[q].pc = "queued"

\* A top-level scan is at its start: get_folder_size_parallel is about to
\* run line 77 for the path its caller gave, scan_drive_folders_parallel is
\* past lines 214-215.
ScanStarts ==
    /\ call.active
    /\ \/ call.kind = "size" /\ tasks[<<>>].pc = "queued"
       \/ call.kind = "drive" /\ tasks[<<>>].pc = "dlist"

ZeroStats ==
    [total_folders |-> 0, total_files |-> 0, total_bytes |-> 0, skipped_loops |-> 0]

\* C29: at the start of every top-level scan on an engine, the scan counters
\* are zero and the visited set is empty.
C29_FreshAtStart ==
    ScanStarts => scan_stats = ZeroStats /\ scanned_inodes = {}

\* C29, the consequence: a scan made without the cache after an earlier scan
\* of the same unchanged tree with the same arguments returns what the
\* earlier one returned.
C29_NoInfluence ==
    (Returned2 /\ SameArgs /\ ~call.use_cache /\ ~stop_flag) => call.res = last.res

\* C29 holds of the quick analysis, which resets at lines 214-215.
C29_Quick == call.kind = "drive" => C29_FreshAtStart

\* The step is a cache hit of the invocation on path p (lines 86-89).
Hit(p) ==
    /\ p \in DOMAIN tasks'
    /\ tasks[p].pc = "queued"
    /\ tasks'[p].pc = "done"
    /\ cache_hits' = cache_hits + 1

\* C26: an invocation returns the cached size only when the live
\* modification time of its directory can be read and equals the one in the
\* record.
C26_HitOnlyOnMatch ==
    [][\A p \in Started :
          Hit(p) => /\ ~NoInode(Resolve(ents, p))
                    /\ p \in DOMAIN folder_cache
                    /\ mtime[Resolve(ents, p)] = folder_cache[p].mtime]_vars

\* C26 holds of the directories whose modification time can be read.
C26_Readable ==
    [][\A p \in Started :
          (Hit(p) /\ ~NoInode(Resolve(ents, p)))
              => /\ p \in DOMAIN folder_cache
                 /\ mtime[Resolve(ents, p)] = folder_cache[p].mtime]_vars

\* The entry built last is marked movable.
IsMovable == folder.movable = <<TRUE>>

\* C21: a folder of a root-level quick scan is movable exactly when it is not
\* a system folder and its size is above 10 MiB; a subfolder of an expansion
\* exactly when it is not a system folder and its size is above 1 MiB.
C21_MovableTenMiB ==
    /\ folder.origin = "quick" =>
           (IsMovable <=> (~folder.is_system /\ folder.size > MIN_MOVABLE_SIZE))
    /\ folder.origin = "expand" =>
           (IsMovable <=> (~folder.is_system /\ folder.size > MovableMin))

\* C21, amended: in a root-level quick scan and in an expansion alike, a
\* folder is movable exactly when it is not a system folder and its size is
\* above 1 MiB, before and after the movable list is built from it.
C21_MovableOneMiB ==
    folder.origin \in {"quick", "expand"} =>
        (IsMovable <=> (~folder.is_system /\ folder.size > MovableMin))

\* C21: a folder of the quick scan that is no system folder, of 5 MiB, is
\* movable, and stays so in the movable list.
C21_Witness ==
    /\ folder.origin = "quick"
    /\ ~folder.is_system
    /\ folder.size = 5
    /\ folder.updated
    /\ IsMovable

\* Thread t is executing statements on the store: a mutation, or the read
\* that get_folder_cache makes under the lock.
Mutating(t) == thr[t].pc = "in" /\ thr[t].op \in MutatingOps
LockedRead(t) == thr[t].pc = "in" /\ thr[t].op = "get_folder_cache"

\* C27: a thread mutates the store only while it holds the lock, so no two
\* mutations overlap, and no mutation overlaps a locked folder read.
C27_MutationsSerialised ==
    /\ \A t \in Threads : Mutating(t) => _lock = <<t>>
    /\ \A t \in Threads : \A u \in Threads \ {t} :
           Mutating(t) => ~(Mutating(u) \/ LockedRead(u))

\* C27 holds of set, get_folder_cache and set_folder_cache among themselves.
C27_LockedOps ==
    \A t \in Threads : \A u \in Threads \ {t} :
        ~(/\ thr[t].pc = "in" /\ thr[t].op \in LockedOps
          /\ thr[u].pc = "in" /\ thr[u].op \in LockedOps)

\* The increments of counter c that the threads have completed.
RECURSIVE Performed(_, _)
Performed(c, T) ==
    IF T = {} THEN 0
    ELSE LET t == CHOOSE x \in T : TRUE IN thr[t].done[c] + Performed(c, T \ {t})

Quiet == \A t \in Threads : thr[t].pc = "idle"

\* C30: when no increment is in progress, every counter equals the number
\* of increments the threads performed on it.
C30_NoLostIncrement ==
    Quiet => \A c \in Counters : Value(c) = Performed(c, Threads)

\* C30 holds while one thread alone has incremented.
C30_OneThread ==
    (Quiet /\ \E t \in Threads : \A u \in Threads \ {t} : Events(u) = 0)
        => \A c \in Counters : Value(c) = Performed(c, Threads)

\* A call returned on an unchanged tree without links where nothing fails,
\* with no cancellation, its max_depth within the bound of the accelerator.
WithinAccelerator ==
    /\ Returned1 /\ Unchanged1 /\ ~stop_flag
    /\ LinkPairs = {} /\ bad = {}
    /\ IsFinite(call.md) /\ call.md[1] >= 0 /\ call.md[1] <= WinDepthLimit

\* C31: on a tree without links, for a max_depth from 0 to 5, the call
\* returns what the generic path returns for that max_depth, whether or not
\* the accelerator computed it.
C31_AcceleratorEqualsGeneric ==
    WithinAccelerator => call.res = Accessible(Root, call.md)

\* What the accelerator returns for max_depth is what the generic path
\* returns for max_depth - 1.
C31_OneLevelLess ==
    (WithinAccelerator /\ HAS_WIN_SCANNER)
        => call.res = Accessible(Root, <<call.md[1] - 1>>)

\* The directories the accelerator lists from directory d (lines 76-86).
RECURSIVE WinListed(_, _, _)
RECURSIVE WinListedFrom(_, _, _, _)
WinListed(d, md, cur) ==
    IF md >= 0 /\ cur >= md THEN {}
    ELSE IF <<d>> \in bad THEN {d}
    ELSE {d} \cup WinListedFrom(d, md, cur, 1)

WinListedFrom(d, md, cur, i) ==
    IF i > Len(ents[d]) THEN {}
    ELSE (IF ents[d][i].k = "file" THEN {} ELSE WinListed(ents[d][i].to, md, cur + 1))
         \cup WinListedFrom(d, md, cur, i + 1)

\* The step returns, for path p, the total of the accelerator (line 100).
WinReturns(p) ==
    /\ p \in DOMAIN tasks'
    /\ tasks[p].pc = "win"
    /\ tasks'[p].pc = "done"

\* The accelerator, run for path p, meets a directory it cannot list.
WinHitsFailure(p) ==
    \E d \in WinListed(Resolve(ents, p), tasks[p].md[1], 0) : <<d>> \in bad

\* C32: the accelerator runs only for a finite max_depth of at most 5, and
\* when it meets a failure in the subtree its partial total is neither
\* returned nor stored.
C32_PartialDiscarded ==
    [][\A p \in Started :
          /\ tasks[p].pc = "win" =>
                 IsFinite(tasks[p].md) /\ tasks[p].md[1] <= WinDepthLimit
          /\ (WinReturns(p) /\ WinHitsFailure(p)) =>
                 /\ tasks'[p].res = 0
                 /\ folder_cache' = folder_cache]_vars

\* C32, its first half: the accelerator runs only for a finite max_depth of
\* at most 5.
C32_OnlyFiniteSmall ==
    \A p \in Started :
        tasks[p].pc = "win" => IsFinite(tasks[p].md) /\ tasks[p].md[1] <= WinDepthLimit

\* The second call, unbounded, was answered from the record of its path.
UnboundedHit ==
    /\ Returned2 /\ ~stop_flag
    /\ call.md = NoDepth /\ call.use_cache
    /\ cache_hits = call.hits0 + 1
    /\ call.listed = 0

\* C33: a record served as a hit to a call with max_depth = None holds the
\* size of the complete subtree, whatever max_depth the call that wrote it
\* had.
C33_HitIsComplete ==
    UnboundedHit => call.res = ReachableBytes(call.follow)

\* C33 holds when the record was written by an unbounded call with one
\* worker per pool.
C33_WrittenUnbounded ==
    (UnboundedHit /\ last.md = NoDepth /\ max_workers = 1)
        => call.res = ReachableBytes(call.follow)

\* C34: the modification time of a record is one its directory had when it
\* was listed: a directory mutated after its listing and before its record
\* was committed has no valid record.
C34_MtimeOfListing ==
    \A p \in DOMAIN folder_cache :
        mtime[Resolve(ents, p)] > call.mtime0[Resolve(ents, p)]
            => get_folder_cache(p) = <<>>

\* C34 holds while no directory is mutated during the scan: the records
\* carry the modification times of the start of the call.
C34_Unmutated ==
    Unchanged1 =>
        \A p \in DOMAIN folder_cache :
            folder_cache[p].mtime = call.mtime0[Resolve(ents, p)]

\* C35: a call that is running eventually returns, for every max_workers and
\* every nesting of fan-outs: the children of an invocation that waits for
\* them always get a worker.
C35_NoStarvation == (call.active /\ ~stop_flag) ~> ~call.active

\* C35: with one worker per pool, an invocation two levels below the root
\* ran while its parent and the root were waiting, and the call returned
\* with no cancellation.
C35_Witness ==
    /\ max_workers = 1 /\ ~stop_flag
    /\ call.kind = "size" /\ call.active
    /\ tasks[<<>>].pc = "done"
    /\ \E p \in Started : Len(p) = 2 /\ tasks[p].pc = "done" /\ tasks[p].i > 0

\* C36: on a tree without links the cycle-skip counter stays 0, whatever
\* calls are made on the engine.
C36_NoSkipWithoutLinks == LinkPairs = {} => scan_stats.skipped_loops = 0

\* C36 holds of the first call made on an engine.
C36_FirstCall ==
    (LinkPairs = {} /\ call.n <= 1) => scan_stats.skipped_loops = 0


\* C37. In the deep analysis of a folder, the sizes of its children do not
\* add up to more than its own size, whether the sizes come from records or
\* from fresh computations: here, the size returned for one subfolder (a
\* lower bound of the sum) does not exceed the size returned for the folder.
SubSizeKnown ==
    /\ ~call.active /\ call.kind = "size" /\ call.at # <<>>
    /\ last.kind = "size" /\ last.at = <<>> /\ last.md = NoDepth
C37_ChildrenWithinParent ==
    SubSizeKnown => call.res <= last.res

\* What holds: on an engine that made no earlier scan, with an empty store,
\* the subfolder's size does not exceed the folder's.
C37_FreshEngine ==
    (SubSizeKnown /\ call.n = 2) => call.res <= last.res


\* C38. After a scan without the cache that was not cancelled, the
\* bytes-summed counter of scan_stats equals the total returned for the
\* root: the bytes of a file are counted once. (Stated for the scans the
\* engine traverses itself, starting from zeroed counters.)
UncachedScanDone ==
    /\ Returned1 /\ Unchanged1
    /\ ~call.use_cache /\ ~stop_flag /\ bad = {}
    /\ ~UseWin(call.md)
C38_BytesCountedOnce ==
    UncachedScanDone => scan_stats.total_bytes = call.res

\* What holds: the counter is at least the returned total.
C38_AtLeastTotal ==
    UncachedScanDone => scan_stats.total_bytes >= call.res


\* C39. A cache hit of an invocation leaves scanned_inodes, the scan_stats
\* counters and the folder store unchanged and submits no child task; of the
\* engine's counters only cache_hits changes, by one.
C39_HitFrame ==
    [][\A p \in Started :
          Hit(p) =>
              /\ scanned_inodes' = scanned_inodes
              /\ scan_stats' = scan_stats
              /\ folder_cache' = folder_cache
              /\ cache_misses' = cache_misses
              /\ stop_flag' = stop_flag
              /\ DOMAIN tasks' = DOMAIN tasks
              /\ tasks'[p].subdirs = <<>>
              /\ tasks'[p].res = get_folder_cache(p)[1]]_vars

\* A subfolder answered from its record inside a call that listed its parent.
C39_Witness ==
    /\ call.active /\ call.use_cache /\ call.md = NoDepth
    /\ cache_hits = call.hits0 + 1
    /\ cache_misses = call.misses0 + 1
    /\ call.listed = 1
    /\ \E p \in Started \ {<<>>} :
          /\ tasks[p].pc = "done" /\ tasks[p].res > 0
          /\ tasks[p].i = 0 /\ tasks[p].subdirs = <<>>
          /\ get_folder_cache(p) # <<>>
          /\ tasks[p].res = get_folder_cache(p)[1]

====
